---- MODULE Spec2Model ----
(***************************************************************************)
(* A model of the protoplasm numeric and geometric kernel.                 *)
(*                                                                         *)
(* Angles, and the inputs of the checked constructors, are modelled on     *)
(* integer lattices with exact arithmetic:                                 *)
(*   - angles: one lattice unit is pi / PI radians, so that PI and TwoPI   *)
(*     are exact lattice values;                                           *)
(*   - normalised floats: one lattice unit is 1 / One, so that 0.5 (Half)  *)
(*     and 1.0 (One) are exact lattice values.                             *)
(* The normalisers, the Poisson disc sampler, the text form of points and  *)
(* the conversions between the signed and the unsigned range compute on    *)
(* f32 values, operation by operation, with f32::sin and f32::tanh as the  *)
(* sinf and tanhf of glibc.                                                *)
(* A constructor that asserts its invariant returns a record               *)
(* [panic, v]: panic = TRUE is the assertion failure, otherwise v is the   *)
(* value stored.                                                           *)
(*                                                                         *)
(* Pure functions are exercised by the specification Spec: each action     *)
(* calls one function on inputs drawn from a bounded set, records the      *)
(* call in `call` and what the function returned in `ret`.                 *)
(***************************************************************************)
EXTENDS Integers, Naturals, Sequences, FiniteSets, TLC

VARIABLES call, ret, p_pc, p_count, p_normaliser, p_points, p_active, p_grid,
          pool_size, running, channel, child_pc, child_item, parent_pc,
          generated, received, result, late_sends

poissonVars == <<p_pc, p_count, p_normaliser, p_points, p_active, p_grid>>

preloaderVars ==
    <<pool_size, running, channel, child_pc, child_item, parent_pc,
      generated, received, result, late_sends>>

vars == <<call, ret, poissonVars, preloaderVars>>

\* What a call of a pure function leaves alone.
machineVars == <<poissonVars, preloaderVars>>

\* ------------------------------------------------------------------------
\* Results of asserting constructors

Ok(v) == [panic |-> FALSE, v |-> v]

Panic == [panic |-> TRUE, v |-> 0]

Abs(x) == IF x < 0 THEN -x ELSE x

Min(a, b) == IF a <= b THEN a ELSE b

Max(a, b) == IF a >= b THEN a ELSE b

\* f32::fract on a lattice whose value 1.0 is `one` units: x - x.trunc(),
\* the remainder keeps the sign of x.
fract(x, one) == IF x >= 0 THEN x % one ELSE -((-x) % one)

\* f32::signum of a value that is not NaN: 1.0 for a positive value and for
\* +0.0, -1.0 for a negative value and for -0.0.  The lattice has one zero,
\* negative_zero tells which of the two zeros of f32 it stands for.
signum(x, negative_zero) == IF x > 0 \/ (x = 0 /\ ~negative_zero) THEN 1 ELSE -1

\* lerp::Lerp for f32: a + (b - a) * s with s = k / den; the caller keeps
\* (b - a) * k a multiple of den, so the result is on the lattice.
lerp(a, b, k, den) == a + ((b - a) * k) \div den

\* ------------------------------------------------------------------------
\* Angle (continuous.rs)

\* Lattice units in a quarter turn, before the refinement by LerpDen.
QuarterTurn == 2

\* Interpolation scalars are k / LerpDen for k in 0..LerpDen.
LerpDen == 2

\* Angle::new is called on inputs up to MaxTurns full turns either side.
MaxTurns == 2

PI == 2 * QuarterTurn * LerpDen

TwoPI == 2 * PI

\* The f32 inputs of Angle::new.
AngleInputs == (-(MaxTurns * TwoPI)) .. (MaxTurns * TwoPI)

\* Every value an Angle can hold: the assertion of Angle::new and
\* Angle::random both allow the closed interval.
Angles == (-PI) .. PI

\* Angles on the coarse lattice: interpolating between two of them with
\* s = k / LerpDen stays on the lattice.
CoarseAngles == {LerpDen * i : i \in (-(2 * QuarterTurn)) .. (2 * QuarterTurn)}

\* Angle::new: (value / 2 pi).fract() * 2 pi is the truncating remainder
\* of value by 2 pi.
Angle_new(value) ==
    LET normalised == (IF value > 0 THEN fract(value, TwoPI)
                       ELSE IF value < 0 THEN fract(value, TwoPI) + TwoPI
                       ELSE value) - PI
    IN  IF normalised >= -PI /\ normalised <= PI THEN Ok(normalised) ELSE Panic

\* Angle::add, impl Add<Angle> for Angle, AddAssign.
Angle_add(a, b) == Angle_new(a + b)

\* impl Sub<Angle> for Angle, SubAssign.
Angle_sub(a, b) == Angle_new(a - b)

Angle_ZERO == 0

\* Angle::lerp with scalar k / LerpDen.
Angle_lerp(a, b, k) ==
    LET diff == b - a
    IN  Angle_new(IF diff > PI THEN lerp(a + TwoPI, b, k, LerpDen)
                  ELSE IF diff < -PI THEN lerp(a, b + TwoPI, k, LerpDen)
                  ELSE lerp(a, b, k, LerpDen))

\* A function is called once, from the state in which nothing was called.
Idle == call.fn = "none"

CallAngleNew ==
    \E value \in AngleInputs :
        /\ Idle
        /\ call' = [fn |-> "Angle::new", value |-> value]
        /\ UNCHANGED machineVars
        /\ ret' = Angle_new(value)

CallAngleAdd ==
    \E a \in Angles, b \in Angles :
        /\ Idle
        /\ call' = [fn |-> "Angle::add", a |-> a, b |-> b]
        /\ UNCHANGED machineVars
        /\ ret' = Angle_add(a, b)

CallAngleSub ==
    \E a \in Angles, b \in Angles :
        /\ Idle
        /\ call' = [fn |-> "Angle::sub", a |-> a, b |-> b]
        /\ UNCHANGED machineVars
        /\ ret' = Angle_sub(a, b)

CallAngleLerp ==
    \E a \in CoarseAngles, b \in CoarseAngles, k \in 0 .. LerpDen :
        /\ Idle
        /\ call' = [fn |-> "Angle::lerp", a |-> a, b |-> b, k |-> k]
        /\ UNCHANGED machineVars
        /\ ret' = Angle_lerp(a, b, k)

\* ------------------------------------------------------------------------
\* UNFloat and SNFloat (continuous.rs), SNPoint (points.rs), SNComplex
\* (complex.rs)

\* Lattice units in 0.5.
Half == 3

One == 2 * Half

\* f32::MAX stands on the lattice at 4 One HugeScale: a whole number on every
\* lattice used below, as every f32 of that magnitude is.
HugeScale == 100000

F32Max == 4 * One * HugeScale

\* x + c in f32 for a constant c of magnitude at most 1: a value as large as
\* f32::MAX absorbs it.
f32_add(x, c) == IF Abs(x) >= F32Max THEN x ELSE x + c

\* Sines are computed in fixed point with 24 fractional bits, the precision
\* of an f32 significand.
SinOne == 2 ^ 24

\* a b / SinOne to the nearest integer, for a, b >= 0 with a b < 2^55, by
\* halves of 12 bits.
SinMul(a, b) ==
    (a \div 4096) * (b \div 4096)
        + ((a \div 4096) * (b % 4096) + (a % 4096) * (b \div 4096)
              + ((a % 4096) * (b % 4096) + SinOne \div 2) \div 4096) \div 4096

\* a / b to the nearest integer, for a >= 0 and b > 0.
SinDiv(a, b) == (2 * a + b) \div (2 * b)

\* num SinOne / den for 0 <= num <= den < 2^23, eight bits at a time.
SinFraction(num, den) ==
    ((num * 256) \div den) * 65536
        + ((((num * 256) % den) * 256) \div den) * 256
        + SinDiv(((((num * 256) % den) * 256) % den) * 256, den)

\* pi in units of 1 / SinOne
SinPi == 52707179

\* sin x = x (1 - x^2/6 (1 - x^2/20 (1 - x^2/42 (1 - x^2/72)))) for
\* 0 <= x <= pi / 4, with x2 = x^2.
SinSeries(x, x2) ==
    SinMul(x, SinOne - SinDiv(SinMul(x2, SinOne - SinDiv(SinMul(x2, SinOne
        - SinDiv(SinMul(x2, SinOne - SinDiv(x2, 72)), 42)), 20)), 6))

\* cos x = 1 - x^2/2 (1 - x^2/12 (1 - x^2/30 (1 - x^2/56 (1 - x^2/90))))
CosSeries(x2) ==
    SinOne - SinDiv(SinMul(x2, SinOne - SinDiv(SinMul(x2, SinOne - SinDiv(SinMul(x2, SinOne
        - SinDiv(SinMul(x2, SinOne - SinDiv(x2, 90)), 56)), 30)), 12)), 2)

SinOfFraction(t) == SinSeries(SinMul(t, SinPi), SinMul(SinMul(t, SinPi), SinMul(t, SinPi)))

CosOfFraction(t) == CosSeries(SinMul(SinMul(t, SinPi), SinMul(t, SinPi)))

\* sin(pi r / d) for 0 <= r <= d / 2: the series of the sine up to a quarter
\* of a half turn and sin(pi r / d) = cos(pi (d - 2 r) / (2 d)) beyond.
SinFirstQuadrant(r, d) ==
    IF 4 * r <= d THEN SinOfFraction(SinFraction(r, d))
    ELSE CosOfFraction(SinFraction(d - 2 * r, 2 * d))

\* sin(pi h / d) for 0 <= h < d: sin(pi (1 - t)) = sin(pi t)
SinHalfTurn(h, d) == SinFirstQuadrant(IF 2 * h > d THEN d - h ELSE h, d)

\* amp sin(pi m / d) for 0 <= m < 2 d: sin(pi (t + 1)) = -sin(pi t)
SinTurn(m, d, amp) ==
    IF m < d THEN SinMul(SinHalfTurn(m, d), amp) ELSE -SinMul(SinHalfTurn(m - d, d), amp)

\* f32::sin of n / d half turns, times amp, to the nearest integer.
sin(n, d, amp) == SinTurn(n % (2 * d), d, amp)

UNFloat_new(value) == IF value >= 0 /\ value <= One THEN Ok(value) ELSE Panic

\* negative_zero: the argument is -0.0 (value is then 0); its fract is -0.0
\* and its signum -1.0, which gives 1.0.
UNFloat_new_sawtooth(value, negative_zero) ==
    UNFloat_new(fract(value, One) - Min(signum(value, negative_zero), 0) * One)

\* scaled_value = (value - 1) / 2 is held in units of 1 / (2 One), where it
\* is the integer value - One, 1.0 is 2 One and 0.5 is One; the final
\* "* 2.0" brings the result back to units of 1 / One.  A sum or difference
\* that is zero is +0.0 in f32, here and in the constructors below.
UNFloat_new_triangle(value) ==
    LET scaled_value == f32_add(value, -One)
    IN  UNFloat_new(Abs(fract(scaled_value, 2 * One)
                        - Min(signum(scaled_value, FALSE), 0) * (2 * One) - One))

SNFloat_new(value) == IF value >= -One /\ value <= One THEN Ok(value) ELSE Panic

\* scaled_value = (value + 1) / 2 in units of 1 / (2 One).
SNFloat_new_sawtooth(value) ==
    LET scaled_value == f32_add(value, One)
    IN  SNFloat_new(fract(scaled_value, 2 * One)
                    - Min(signum(scaled_value, FALSE), 0) * (2 * One) - One)

\* scaled_value = (value - 1) / 4 in units of 1 / (4 One).
SNFloat_new_triangle(value) ==
    LET scaled_value == f32_add(value, -One)
    IN  SNFloat_new(Abs(fract(scaled_value, 4 * One)
                        - Min(signum(scaled_value, FALSE), 0) * (4 * One) - 2 * One) - One)

\* SNPoint::new: the assertion tests x >= -1 and y <= 1, each twice.
SNPoint_new(x, y) ==
    IF x >= -One /\ y <= One /\ x >= -One /\ y <= One
    THEN [panic |-> FALSE, v |-> <<x, y>>]
    ELSE [panic |-> TRUE, v |-> <<0, 0>>]

SNComplex_new(re, im) ==
    IF re >= -One /\ re <= One /\ im >= -One /\ im <= One
    THEN [panic |-> FALSE, v |-> <<re, im>>]
    ELSE [panic |-> TRUE, v |-> <<0, 0>>]

\* ------------------------------------------------------------------------
\* The variants of the normalisers (constraint_resolvers.rs), and the
\* constructors as calls

SFloatNormalisers ==
    {"Sawtooth", "Triangle", "Sin", "SinRepeating", "TanH", "Clamp", "Fractional", "Random"}

UFloatNormalisers == {"Sawtooth", "Triangle", "Sin", "SinRepeating", "Clamp", "Random"}

\* The f32 arguments of the constructors: lattice values up to two either
\* side.
FloatArgs == (-(2 * One)) .. (2 * One)

CallUNFloatNew ==
    \E value \in FloatArgs :
        /\ Idle
        /\ call' = [fn |-> "UNFloat::new", value |-> value]
        /\ UNCHANGED machineVars
        /\ ret' = UNFloat_new(value)

CallSNFloatNew ==
    \E value \in FloatArgs :
        /\ Idle
        /\ call' = [fn |-> "SNFloat::new", value |-> value]
        /\ UNCHANGED machineVars
        /\ ret' = SNFloat_new(value)

CallSNPointNew ==
    \E x \in FloatArgs, y \in FloatArgs :
        /\ Idle
        /\ call' = [fn |-> "SNPoint::new", x |-> x, y |-> y]
        /\ UNCHANGED machineVars
        /\ ret' = SNPoint_new(x, y)

CallSNComplexNew ==
    \E re \in FloatArgs, im \in FloatArgs :
        /\ Idle
        /\ call' = [fn |-> "SNComplex::new", x |-> re, y |-> im]
        /\ UNCHANGED machineVars
        /\ ret' = SNComplex_new(re, im)

CallUNFloatWrap ==
    \E value \in FloatArgs :
        /\ Idle
        /\ \/ \E negative_zero \in (IF value = 0 THEN BOOLEAN ELSE {FALSE}) :
                 /\ call' = [fn |-> "UNFloat::new_sawtooth", value |-> value,
                             negative_zero |-> negative_zero]
                 /\ UNCHANGED machineVars
                 /\ ret' = UNFloat_new_sawtooth(value, negative_zero)
           \/ /\ call' = [fn |-> "UNFloat::new_triangle", value |-> value]
              /\ UNCHANGED machineVars
              /\ ret' = UNFloat_new_triangle(value)

CallSNFloatWrap ==
    \E value \in FloatArgs :
        /\ Idle
        /\ \/ /\ call' = [fn |-> "SNFloat::new_sawtooth", value |-> value]
              /\ UNCHANGED machineVars
              /\ ret' = SNFloat_new_sawtooth(value)
           \/ /\ call' = [fn |-> "SNFloat::new_triangle", value |-> value]
              /\ UNCHANGED machineVars
              /\ ret' = SNFloat_new_triangle(value)

\* ------------------------------------------------------------------------
\* PointSet and PointSetGenerator (point_sets.rs)

Nibble_MODULUS == 16

Nibbles == 0 .. (Nibble_MODULUS - 1)

\* u8
Bytes == 0 .. 255

\* The coordinates of ring and spiral points are rounded to 1 / CoordOne.
CoordOne == 16 * One

\* SNFloat::new on a lattice whose 1.0 is `one` units.
SNFloat_new_on(value, one) ==
    IF value >= -one /\ value <= one THEN Ok(value) ELSE Panic

\* SNPoint::new of the point (x / onex, y / oney): the assertion tests
\* x >= -1 and y <= 1, each twice.
SNPoint_new_on(x, onex, y, oney) ==
    IF x >= -onex /\ y <= oney /\ x >= -onex /\ y <= oney
    THEN [panic |-> FALSE, v |-> <<x, onex, y, oney>>]
    ELSE [panic |-> TRUE, v |-> <<0, 1, 0, 1>>]

\* SNPoint::from_snfloats of two SNFloat::new results on the lattice
\* 1 / CoordOne: either constructor may have panicked.
SNPoint_from_snfloats(x, y) ==
    IF x.panic \/ y.panic
    THEN [panic |-> TRUE, v |-> <<0, 1, 0, 1>>]
    ELSE [panic |-> FALSE, v |-> <<x.v, CoordOne, y.v, CoordOne>>]

\* The i-th value (i from 0) an rng draws, reduced to 0 .. m - 1: the rng is
\* one of a few fixed streams, told apart by their seed.
Rng_gen(rng, i, m) == (rng.seed * (i + 1) + i) % m

RngSeeds == 3

Rngs == [seed : 0 .. (RngSeeds - 1)]

\* Collecting an iterator of constructor results into a Vec: the first
\* constructor that panics ends the call.
Collect(made) ==
    IF \E i \in 1 .. Len(made) : made[i].panic
    THEN [panic |-> TRUE, points |-> <<>>]
    ELSE [panic |-> FALSE, points |-> [i \in 1 .. Len(made) |-> made[i].v]]

\* (0..x_count).flat_map(|x| (0..y_count).map(|y| (x, y))): x outermost.
GridCells(x_count, y_count) ==
    [i \in 1 .. (x_count * y_count) |-> <<(i - 1) \div y_count, (i - 1) % y_count>>]

\* 2 (x_ratio x + x_ratio 0.5) - 1 = (2 x + 1 - x_count) / x_count.
CentrePoint(c, x_count, y_count) ==
    SNPoint_new_on(2 * c[1] + 1 - x_count, x_count, 2 * c[2] + 1 - y_count, y_count)

\* 2 (x_ratio x + q x_ratio) - 1 with q = 0.25 on the even rows and 0.75 on
\* the odd ones is (4 x + 4 q - 2 x_count) / (2 x_count).
StaggeredPoint(c, x_count, y_count) ==
    SNPoint_new_on(4 * c[1] + (IF c[2] % 2 = 0 THEN 1 ELSE 3) - 2 * x_count, 2 * x_count,
                   2 * c[2] + 1 - y_count, y_count)

origin == <<[panic |-> FALSE, v |-> <<0, 1, 0, 1>>]>>

moore ==
    << SNPoint_from_snfloats(Ok(-CoordOne), Ok(-CoordOne)),
       SNPoint_from_snfloats(Ok(-CoordOne), Ok(0)),
       SNPoint_from_snfloats(Ok(-CoordOne), Ok(CoordOne)),
       SNPoint_from_snfloats(Ok(0), Ok(-CoordOne)),
       SNPoint_from_snfloats(Ok(0), Ok(CoordOne)),
       SNPoint_from_snfloats(Ok(CoordOne), Ok(-CoordOne)),
       SNPoint_from_snfloats(Ok(CoordOne), Ok(0)),
       SNPoint_from_snfloats(Ok(CoordOne), Ok(CoordOne)) >>

von_neumann ==
    << SNPoint_from_snfloats(Ok(CoordOne), Ok(0)),
       SNPoint_from_snfloats(Ok(-CoordOne), Ok(0)),
       SNPoint_from_snfloats(Ok(0), Ok(CoordOne)),
       SNPoint_from_snfloats(Ok(0), Ok(-CoordOne)) >>

UniformGridPoints(self) ==
    LET x_count == self.x_count + 1
        y_count == self.y_count + 1
        cells == GridCells(x_count, y_count)
    IN  [i \in 1 .. Len(cells) |-> CentrePoint(cells[i], x_count, y_count)]

SparseGridPoints(self) ==
    LET x_count1 == self.x_count + 1
        y_count1 == self.y_count + 1
        x_count == IF x_count1 % 2 = 0 THEN x_count1 + 1 ELSE x_count1
        y_count == IF y_count1 % 2 = 0 THEN y_count1 + 1 ELSE y_count1
        x_mod == IF self.x_mod THEN 1 ELSE 0
        y_mod == IF self.y_mod THEN 1 ELSE 0
        cells == SelectSeq(GridCells(x_count, y_count),
                           LAMBDA c : ~(c[1] % 2 = x_mod /\ c[2] % 2 = y_mod))
    IN  [i \in 1 .. Len(cells) |-> CentrePoint(cells[i], x_count, y_count)]

TriGridPoints(self) ==
    LET x_count == self.x_count + 1
        y_count == self.y_count + 1
        cells == GridCells(x_count, y_count)
    IN  [i \in 1 .. Len(cells) |-> StaggeredPoint(cells[i], x_count, y_count)]

HexGridPoints(self) ==
    LET x_count1 == self.x_count + 1
        y_count1 == self.y_count + 1
        x_count == CASE x_count1 % 3 = 0 -> x_count1 + 2
                     [] x_count1 % 3 = 1 -> x_count1 + 1
                     [] x_count1 % 3 = 2 -> x_count1
        y_count == IF y_count1 % 2 = 1 THEN y_count1 + 1 ELSE y_count1
        cells == SelectSeq(GridCells(x_count, y_count), LAMBDA c : ~(c[2] % 2 = c[1] % 3))
    IN  [i \in 1 .. Len(cells) |-> StaggeredPoint(cells[i], x_count, y_count)]

\* uniform(): rng.gen() is a float of [0, 1), here on the lattice 1 / One.
uniform(rng, count) ==
    [i \in 1 .. count |->
        SNPoint_new_on(Rng_gen(rng, 2 * (i - 1), One), One,
                       Rng_gen(rng, 2 * (i - 1) + 1, One), One)]

\* a / b to the nearest integer, for b > 0.
RoundDiv(a, b) == IF a < 0 THEN -((2 * (-a) + b) \div (2 * b)) ELSE (2 * a + b) \div (2 * b)

\* The sines of polar points are taken to 1 / PolarScale of a coordinate
\* unit before they are multiplied by rho.
PolarScale == 2 ^ 12

\* rho sin(theta) to the nearest 1 / CoordOne
PolarCoord(rho_num, rho_den, n, d) ==
    RoundDiv(rho_num * sin(n, d, CoordOne * PolarScale), rho_den * PolarScale)

\* The point at radius rho_num / rho_den and angle n / d half turns:
\* from_snfloats(SNFloat::new(rho sin(theta)), SNFloat::new(rho cos(theta))),
\* with cos(theta) = sin(theta + pi / 2).
PolarPoint(rho_num, rho_den, n, d) ==
    SNPoint_from_snfloats(
        SNFloat_new_on(PolarCoord(rho_num, rho_den, n, d), CoordOne),
        SNFloat_new_on(PolarCoord(rho_num, rho_den, 2 * n + d, 2 * d), CoordOne))

\* The Spiral arm. theta = count maximum scalar rho^e, with rho = i / count,
\* maximum = self.maximum / PI half turns and scalar = self.scalar / One;
\* the exponent e is 1 when linear and 2 nonlinearity_factor_halved
\* otherwise, sampled at 0, 1 and 2.
SpiralPoints(self) ==
    LET count == Max(self.count, 1)
        e == IF self.linear THEN 1 ELSE (2 * self.nonlinearity_factor_halved) \div One
        theta_num(i) == CASE e = 0 -> count * self.maximum * self.scalar
                          [] e = 1 -> self.maximum * self.scalar * i
                          [] e = 2 -> self.maximum * self.scalar * i * i
        theta_den == IF e = 2 THEN PI * One * count ELSE PI * One
    IN  [j \in 1 .. count |-> PolarPoint(j - 1, count, theta_num(j - 1), theta_den)]

\* The points of a ring sequence: ring `index` (from 0) holds
\* sequence[index + 1] points at theta = i (2 pi / point_count) - pi, which
\* is (2 i - point_count) / point_count half turns, and at
\* rho = index / sequence.len().
\* The iterations granted to a ring-size loop.
LoopFuel == 600

\* The points of the rings lo .. hi - 1 of the sequence, in order. The
\* range is halved rather than walked ring by ring, which gives the same
\* list.
RECURSIVE RingPointsBetween(_, _, _)
RingPointsBetween(sequence, lo, hi) ==
    IF lo >= hi THEN <<>>
    ELSE IF hi = lo + 1
    THEN LET point_count == sequence[lo + 1]
         IN  [j \in 1 .. point_count |->
                 PolarPoint(lo, Len(sequence), 2 * (j - 1) - point_count, point_count)]
    ELSE LET mid == (lo + hi) \div 2
         IN  RingPointsBetween(sequence, lo, mid) \o RingPointsBetween(sequence, mid, hi)

RingPoints(sequence, index) == RingPointsBetween(sequence, index, Len(sequence))

\* RandomRings: max_rings + 1 rings of Nibble::random + 1 points each.
RandomRingsSequence(self, rng) ==
    [k \in 1 .. (self.max_rings + 1) |-> Rng_gen(rng, k - 1, Nibble_MODULUS) + 1]

\* The loop of LinearIncreasingRings; the totals are u16 and stay far below
\* the width.
\* One iteration of the loop of LinearIncreasingRings on the loop's
\* variables; done once the loop has taken its break.
LinearLoopStep(st, ring_size_delta, max_count) ==
    LET current_total == st.new_total
        new_total2 == st.prev_total + ring_size_delta
        prev_total2 == current_total
        total_total2 == st.total_total + new_total2
    IN  IF st.done THEN st
        ELSE IF total_total2 <= max_count \/ st.sequence = <<>>
        THEN [done |-> FALSE, prev_total |-> prev_total2, new_total |-> new_total2,
              total_total |-> total_total2, sequence |-> Append(st.sequence, prev_total2)]
        ELSE [st EXCEPT !.done = TRUE]

\* n iterations of the loop, or as many as it takes to reach the break.
RECURSIVE LinearLoopSteps(_, _, _, _)
LinearLoopSteps(st, n, ring_size_delta, max_count) ==
    IF st.done \/ n = 0 THEN st
    ELSE IF n = 1 THEN LinearLoopStep(st, ring_size_delta, max_count)
    ELSE LinearLoopSteps(LinearLoopSteps(st, n \div 2, ring_size_delta, max_count),
                         n - n \div 2, ring_size_delta, max_count)

\* The loop run to its break: total_total grows by at least 1 every second
\* iteration and the loop ends once it passes max_count <= 255, within
\* LoopFuel iterations.
LinearLoop(prev_total, new_total, total_total, sequence, ring_size_delta, max_count) ==
    LinearLoopSteps([done |-> FALSE, prev_total |-> prev_total, new_total |-> new_total,
                     total_total |-> total_total, sequence |-> sequence],
                    LoopFuel, ring_size_delta, max_count).sequence

LinearIncreasingRingsSequence(self) ==
    LinearLoop(0, 1, 0, <<>>, self.ring_size_delta, Max(self.max_count, 1))

\* The loop of FibonacciRings.
RECURSIVE FibonacciLoop(_, _, _, _, _)
FibonacciLoop(prev_total, new_total, total_total, sequence, max_count) ==
    LET current_total == new_total
        new_total2 == new_total + prev_total
        prev_total2 == current_total
        total_total2 == total_total + new_total2
    IN  IF total_total2 <= max_count \/ sequence = <<>>
        THEN FibonacciLoop(prev_total2, new_total2, total_total2,
                           Append(sequence, prev_total2), max_count)
        ELSE sequence

FibonacciRingsSequence(self) == FibonacciLoop(0, 1, 0, <<>>, Max(self.max_count, 1))

\* The loop of SquaredRings.
RECURSIVE SquaredLoop(_, _, _, _, _)
SquaredLoop(prev_total, new_total, total_total, sequence, max_count) ==
    LET current_total == new_total
        new_total2 == prev_total * 2
        prev_total2 == current_total
        total_total2 == total_total + new_total2
    IN  IF total_total2 <= max_count \/ sequence = <<>>
        THEN SquaredLoop(prev_total2, new_total2, total_total2,
                         Append(sequence, prev_total2), max_count)
        ELSE sequence

SquaredRingsSequence(self) == SquaredLoop(0, 1, 0, <<>>, Max(self.max_count, 1))

\* The ring-size sequence of the four ring variants.
\* RingSequence with the ring size delta of LinearIncreasingRings drawn from
\* the rng.
RingSequence_DrawnDelta(self, rng) ==
    CASE self.variant = "RandomRings" -> RandomRingsSequence(self, rng)
      [] self.variant = "LinearIncreasingRings" ->
            LinearLoop(0, 1, 0, <<>>, Rng_gen(rng, 0, Nibble_MODULUS), Max(self.max_count, 1))
      [] self.variant = "FibonacciRings" -> FibonacciRingsSequence(self)
      [] self.variant = "SquaredRings" -> SquaredRingsSequence(self)

RingSequence(self, rng) ==
    CASE self.variant = "RandomRings" -> RandomRingsSequence(self, rng)
      [] self.variant = "LinearIncreasingRings" -> LinearIncreasingRingsSequence(self)
      [] self.variant = "FibonacciRings" -> FibonacciRingsSequence(self)
      [] self.variant = "SquaredRings" -> SquaredRingsSequence(self)

RingVariants == {"RandomRings", "LinearIncreasingRings", "FibonacciRings", "SquaredRings"}

\* ------------------------------------------------------------------------
\* f32 values and their arithmetic
\*
\* An f32 is a sign and m * 2^e with m odd (m = 0 and e = 0 for a zero), or
\* an infinity; NaN is the infinity record with m = 1.  Every operation
\* rounds to nearest, ties to even, as the hardware does.

F32(neg, inf, m, e) == [neg |-> neg, inf |-> inf, m |-> m, e |-> e]

F32Zero == F32(FALSE, FALSE, 0, 0)

\* The significand of an f32 has 24 bits, its lowest bit is worth at least
\* 2^-149 and its values are below 2^128.
F32Bits == 24

F32MinExp == -149

F32MaxExp == 128

RECURSIVE BitLen(_)
BitLen(m) == IF m = 0 THEN 0 ELSE 1 + BitLen(m \div 2)

\* m * 2^e with the factors 2 of m moved into the exponent.
RECURSIVE OddPart(_, _)
OddPart(m, e) ==
    IF m = 0 THEN <<0, 0>>
    ELSE IF m % 2 = 0 THEN OddPart(m \div 2, e + 1)
    ELSE <<m, e>>

\* The finite f32 of the sign neg and the odd part <<m, e>>.
F32OfOdd(neg, odd) == F32(neg, FALSE, odd[1], odd[2])

\* The f32 rounded * 2^exp, rounded of at most 24 bits: infinity from 2^128
\* on.
F32Pack(neg, rounded, exp) ==
    IF BitLen(rounded) + exp > F32MaxExp THEN F32(neg, TRUE, 0, 0)
    ELSE F32OfOdd(neg, OddPart(rounded, exp))

\* The quotient q of the bits kept, one higher when the bits dropped, r,
\* are more than half, or are half and q is odd or more bits follow.
RoundNearestEven(q, r, half, sticky) ==
    IF r > half \/ (r = half /\ (sticky \/ q % 2 = 1)) THEN q + 1 ELSE q

\* (m + t) * 2^e with the lowest `shift` bits of m rounded away.
F32RoundBy(neg, m, e, sticky, shift) ==
    IF shift > 30 THEN F32(neg, FALSE, 0, 0)
    ELSE IF shift > 0
    THEN F32Pack(neg,
                 RoundNearestEven(m \div (2 ^ shift), m % (2 ^ shift), 2 ^ (shift - 1), sticky),
                 e + shift)
    ELSE F32Pack(neg, m, e)

\* The f32 nearest to (m + t) * 2^e, where m is below 2^30, 0 <= t < 1 and
\* t > 0 exactly when sticky: round to nearest, ties to even, gradual
\* underflow (to zero when all of m is below half the smallest f32), and
\* infinity from 2^128 on.
F32Round(neg, m, e, sticky) ==
    F32RoundBy(neg, m, e, sticky, Max(BitLen(m) - F32Bits, F32MinExp - e))

\* The f32 n / 2^bits, which is exact for n of at most 24 bits.
F32OfDyadic(n, bits, negative_zero) ==
    LET odd == OddPart(Abs(n), -bits)
    IN  F32(n < 0 \/ (n = 0 /\ negative_zero), FALSE, odd[1], odd[2])

\* a == b on two f32: 0.0 and -0.0 are equal.
F32Eq(a, b) ==
    /\ a.inf = b.inf
    /\ a.m = b.m
    /\ a.e = b.e
    /\ (a.neg = b.neg \/ (a.m = 0 /\ ~a.inf))

F32Inf(neg) == F32(neg, TRUE, 0, 0)

\* A NaN is held as an infinity with m = 1.
F32NaN == F32(FALSE, TRUE, 1, 0)

IsNaN(x) == x.inf /\ x.m = 1

IsZero(x) == ~x.inf /\ x.m = 0

\* The integer n, of at most 24 bits, as an f32: `n as f32`.
F32OfInt(n) == F32OfDyadic(n, 0, FALSE)

\* The exponent above the highest bit of a finite x.
Top(x) == x.e + BitLen(x.m)

\* |a| < |b|, neither a NaN.
MagLt(a, b) ==
    IF a.inf THEN FALSE
    ELSE IF b.inf THEN TRUE
    ELSE IF b.m = 0 THEN FALSE
    ELSE IF a.m = 0 THEN TRUE
    ELSE IF Top(a) # Top(b) THEN Top(a) < Top(b)
    ELSE a.m * (2 ^ (F32Bits - BitLen(a.m))) < b.m * (2 ^ (F32Bits - BitLen(b.m)))

\* a < b
F32Lt(a, b) ==
    IF IsNaN(a) \/ IsNaN(b) THEN FALSE
    ELSE IF IsZero(a) /\ IsZero(b) THEN FALSE
    ELSE IF a.neg # b.neg THEN a.neg
    ELSE IF a.neg THEN MagLt(b, a)
    ELSE MagLt(a, b)

\* a <= b
F32Le(a, b) == ~IsNaN(a) /\ ~IsNaN(b) /\ ~F32Lt(b, a)

F32Neg(a) == IF IsNaN(a) THEN a ELSE [a EXCEPT !.neg = ~@]

F32Abs(a) == IF IsNaN(a) THEN a ELSE [a EXCEPT !.neg = FALSE]

\* small.m / 2^down, whole: the bits of small in the window of big.
LowBits(small, down) ==
    IF small.m = 0 \/ down > 30 THEN 0
    ELSE IF down <= 0 THEN small.m * (2 ^ (-down))
    ELSE small.m \div (2 ^ down)

\* Some bit of small lies below the window of big.
LowSticky(small, down) ==
    /\ small.m # 0
    /\ down > 0
    /\ (down > 30 \/ small.m % (2 ^ down) # 0)

\* high + low or, with a borrow for the sticky bits, high - low.
AddWindow(neg, high, low, sticky, subtract, exp) ==
    F32Round(neg,
             IF subtract THEN high - low - (IF sticky THEN 1 ELSE 0) ELSE high + low,
             exp, sticky)

\* The sum in the window whose lowest bit is worth 2^exp.
AddAligned(neg, big, small, subtract, exp) ==
    AddWindow(neg, big.m * (2 ^ (big.e - exp)), LowBits(small, exp - small.e),
              LowSticky(small, exp - small.e), subtract, exp)

\* |big| + |small|, or |big| - |small|, of two finite f32 with
\* |big| > |small| or an addition, rounded, with the sign neg: big is held
\* in 28 bits, and the bits of small below them are sticky.
AddMag(neg, big, small, subtract) == AddAligned(neg, big, small, subtract, Top(big) - 28)

\* a + b of two finite f32 that are not zero, |big| >= |small|.
AddOrdered(big, small) ==
    IF big.neg # small.neg /\ big.m = small.m /\ big.e = small.e THEN F32Zero
    ELSE AddMag(big.neg, big, small, big.neg # small.neg)

\* a + b
F32Add(a, b) ==
    IF IsNaN(a) \/ IsNaN(b) THEN F32NaN
    ELSE IF a.inf \/ b.inf
    THEN (IF a.inf /\ b.inf /\ a.neg # b.neg THEN F32NaN ELSE IF a.inf THEN a ELSE b)
    ELSE IF a.m = 0 /\ b.m = 0 THEN F32(a.neg /\ b.neg, FALSE, 0, 0)
    ELSE IF a.m = 0 THEN b
    ELSE IF b.m = 0 THEN a
    ELSE IF MagLt(a, b) THEN AddOrdered(b, a)
    ELSE AddOrdered(a, b)

\* a - b
F32Sub(a, b) == F32Add(a, F32Neg(b))

\* (high * 2^24 + low24) * 2^e rounded: the lowest `drop` bits are sticky.
MulRound(neg, high, low24, e, drop) ==
    IF drop <= 0 THEN F32Round(neg, high * (2 ^ 24) + low24, e, FALSE)
    ELSE F32Round(neg, high * (2 ^ (24 - drop)) + low24 \div (2 ^ drop),
                  e + drop, low24 % (2 ^ drop) # 0)

\* The product whose middle and low parts are mid and low.
MulParts(neg, a1b1, mid, low, e) ==
    MulRound(neg, a1b1 + mid \div 4096, (mid % 4096) * 4096 + (low % 4096), e,
             BitLen(a1b1 + mid \div 4096) - 6)

\* (a1 * 2^12 + a0) * (b1 * 2^12 + b0) * 2^e
MulHalves(neg, a1, a0, b1, b0, e) ==
    MulParts(neg, a1 * b1, a1 * b0 + a0 * b1 + (a0 * b0) \div 4096, a0 * b0, e)

\* a * b: the product of the two significands by halves of 12 bits, of
\* which 30 bits are kept and the others are sticky.
F32Mul(a, b) ==
    IF IsNaN(a) \/ IsNaN(b) THEN F32NaN
    ELSE IF a.inf \/ b.inf
    THEN (IF IsZero(a) \/ IsZero(b) THEN F32NaN ELSE F32Inf(a.neg # b.neg))
    ELSE IF a.m = 0 \/ b.m = 0 THEN F32(a.neg # b.neg, FALSE, 0, 0)
    ELSE MulHalves(a.neg # b.neg, a.m \div 4096, a.m % 4096, b.m \div 4096, b.m % 4096,
                   a.e + b.e)

\* The f32 nearest to the significand, exponent and sticky bit in parts.
F32RoundParts(neg, parts) == F32Round(neg, parts.m, parts.e, parts.sticky)

\* The quotient q and the rest r of a division by d, continued four bits
\* at a time until q has more than 25 bits or nothing is left.
RECURSIVE DivBits(_, _, _, _)
DivBits(q, r, d, e) ==
    IF q >= 2 ^ 25 \/ r = 0 THEN [m |-> q, e |-> e, sticky |-> r # 0]
    ELSE DivBits(16 * q + (16 * r) \div d, (16 * r) % d, d, e - 4)

\* a / b
F32Div(a, b) ==
    IF IsNaN(a) \/ IsNaN(b) THEN F32NaN
    ELSE IF (a.inf /\ b.inf) \/ (IsZero(a) /\ IsZero(b)) THEN F32NaN
    ELSE IF a.inf \/ IsZero(b) THEN F32Inf(a.neg # b.neg)
    ELSE IF b.inf \/ IsZero(a) THEN F32(a.neg # b.neg, FALSE, 0, 0)
    ELSE F32RoundParts(a.neg # b.neg, DivBits(a.m \div b.m, a.m % b.m, b.m, a.e - b.e))

\* The root of a radicand whose bits are taken two at a time from the
\* highest pair of m, which has `pairs` pairs, and then are zero: root and
\* rest after each pair, until the root has 26 bits.
RECURSIVE SqrtBits(_, _, _, _, _)
SqrtBits(root, rest, m, pairs, e) ==
    IF root >= 2 ^ 25 \/ (pairs = 0 /\ rest = 0)
    THEN [m |-> root, e |-> e, sticky |-> rest # 0 \/ (pairs > 0 /\ m % (4 ^ pairs) # 0)]
    ELSE LET next == IF pairs > 0 THEN (m \div (4 ^ (pairs - 1))) % 4 ELSE 0
             r == 4 * rest + next
             trial == 4 * root + 1
         IN  IF r >= trial
             THEN SqrtBits(2 * root + 1, r - trial, m, Max(pairs - 1, 0), e - 1)
             ELSE SqrtBits(2 * root, r, m, Max(pairs - 1, 0), e - 1)

\* The root of m * 2^e, e even, from the pairs of bits of m.
SqrtPairs(m, e, pairs) ==
    F32RoundParts(FALSE, SqrtBits(0, 0, m, pairs, e \div 2 + pairs))

SqrtEven(m, e) == SqrtPairs(m, e, (BitLen(m) + 1) \div 2)

\* a.sqrt()
F32Sqrt(a) ==
    IF IsNaN(a) THEN F32NaN
    ELSE IF IsZero(a) THEN a
    ELSE IF a.neg THEN F32NaN
    ELSE IF a.inf THEN a
    ELSE IF a.e % 2 = 0 THEN SqrtEven(a.m, a.e)
    ELSE SqrtEven(2 * a.m, a.e - 1)

\* a.round() as usize for a finite a below 2^24: halves go away from zero,
\* and a negative number is 0.
F32RoundAsUsize(a) ==
    LET down == -a.e
        whole == IF down <= 0 THEN a.m * (2 ^ a.e)
                 ELSE IF down > 30 THEN 0
                 ELSE (a.m + 2 ^ (down - 1)) \div (2 ^ down)
    IN  IF a.neg THEN 0 ELSE whole

\* The f32 nearest to n / d, for integers of at most 24 bits: n as f32 /
\* d as f32.
F32OfRatio(n, d) == F32Div(F32OfInt(n), F32OfInt(d))

F32One == F32OfInt(1)

F32MinusOne == F32OfInt(-1)

\* f32::EPSILON, the gap after 1.0.
F32Epsilon == F32OfDyadic(1, F32Bits - 1, FALSE)

\* nalgebra::distance of two points: the root of the sum of the squares of
\* the differences, each operation rounded to f32.
F32Distance(p, q) ==
    LET dx == F32Sub(p[1], q[1])
        dy == F32Sub(p[2], q[2])
    IN  F32Sqrt(F32Add(F32Mul(dx, dx), F32Mul(dy, dy)))

\* ------------------------------------------------------------------------
\* f32 operations of the standard library
\*
\* f32::sin and f32::tanh are the sinf and tanhf of the C library the
\* program is linked with; the ones modelled are those of glibc 2.36 on
\* x86_64, operation by operation: sinf evaluates a polynomial in f64 and
\* rounds the result to f32, tanhf works in f32 through expm1f.  Their
\* results are within one unit in the last place of the exact ones, and
\* another C library may round some of them the other way.

\* value.is_normal(): neither zero, subnormal, infinite nor NaN.
F32IsNormal(x) == ~x.inf /\ x.m # 0 /\ Top(x) >= -125

\* x.trunc(): the bits of x worth less than 1 cleared.
F32Trunc(x) ==
    IF x.inf \/ x.e >= 0 THEN x
    ELSE IF -x.e >= BitLen(x.m) THEN F32(x.neg, FALSE, 0, 0)
    ELSE F32OfOdd(x.neg, OddPart(x.m \div (2 ^ (-x.e)), 0))

\* x.fract(): x - x.trunc()
F32Fract(x) == F32Sub(x, F32Trunc(x))

\* x.signum(): 1.0 or -1.0 by the sign bit, NaN of a NaN.
F32Signum(x) == IF IsNaN(x) THEN x ELSE F32(x.neg, FALSE, 1, 0)

\* a.min(b) and a.max(b): the other operand when one is a NaN.
F32MinOf(a, b) == IF IsNaN(a) THEN b ELSE IF IsNaN(b) THEN a ELSE IF F32Lt(b, a) THEN b ELSE a

F32MaxOf(a, b) == IF IsNaN(a) THEN b ELSE IF IsNaN(b) THEN a ELSE IF F32Lt(a, b) THEN b ELSE a

\* x.floor() as usize and x.ceil() as usize of a finite x below 2^24: a
\* negative number is 0.
F32FloorAsUsize(x) ==
    IF x.neg \/ x.m = 0 THEN 0
    ELSE IF x.e >= 0 THEN x.m * (2 ^ x.e)
    ELSE IF -x.e >= BitLen(x.m) THEN 0
    ELSE x.m \div (2 ^ (-x.e))

F32CeilAsUsize(x) ==
    IF x.neg \/ x.m = 0 THEN 0
    ELSE IF x.e >= 0 THEN x.m * (2 ^ x.e)
    ELSE IF -x.e >= BitLen(x.m) THEN 1
    ELSE x.m \div (2 ^ (-x.e)) + 1

\* (int32_t) x of a finite x below 2^24 in magnitude: towards zero.
F32ToInt(x) ==
    LET whole == IF x.e >= 0 THEN x.m * (2 ^ x.e)
                 ELSE IF -x.e >= BitLen(x.m) THEN 0
                 ELSE x.m \div (2 ^ (-x.e))
    IN  IF x.neg THEN -whole ELSE whole

\* x with k added to its exponent field: x * 2^k as long as both are
\* normal numbers.
F32Scale(x, k) == IF x.m = 0 \/ x.inf THEN x ELSE [x EXCEPT !.e = @ + k]

\* Naturals of any length, in limbs of 14 bits, the lowest first and the
\* highest not zero.
WideBase == 2 ^ 14

WideBits == BitLen(WideBase - 1)

RECURSIVE WideTrim(_)
WideTrim(s) ==
    IF s # <<>> /\ s[Len(s)] = 0 THEN WideTrim(SubSeq(s, 1, Len(s) - 1)) ELSE s

\* The limbs of the number whose limbs, not yet reduced below the base,
\* are s, plus the carry c.
RECURSIVE WideCarry(_, _)
WideCarry(s, c) ==
    IF s = <<>>
    THEN (IF c = 0 THEN <<>> ELSE <<c % WideBase>> \o WideCarry(<<>>, c \div WideBase))
    ELSE <<(s[1] + c) % WideBase>> \o WideCarry(Tail(s), (s[1] + c) \div WideBase)

WideOfInt(n) == WideCarry(<<>>, n)

\* The number of at most 31 bits that s denotes.
RECURSIVE WideToInt(_)
WideToInt(s) == IF s = <<>> THEN 0 ELSE s[1] + WideBase * WideToInt(Tail(s))

WideBitLen(s) ==
    IF s = <<>> THEN 0 ELSE WideBits * (Len(s) - 1) + BitLen(s[Len(s)])

WideLimb(s, i) == IF i >= 1 /\ i <= Len(s) THEN s[i] ELSE 0

\* s * 2^(WideBits * limbs + bits)
WideShlBy(s, limbs, bits) ==
    WideCarry([i \in 1 .. (Len(s) + limbs) |-> WideLimb(s, i - limbs) * (2 ^ bits)], 0)

WideShl(s, k) == IF s = <<>> THEN s ELSE WideShlBy(s, k \div WideBits, k % WideBits)

\* s \div 2^(WideBits * limbs + bits)
WideShrBy(s, limbs, bits) ==
    WideTrim([i \in 1 .. Max(Len(s) - limbs, 0) |->
                 WideLimb(s, i + limbs) \div (2 ^ bits)
                 + (WideLimb(s, i + limbs + 1) % (2 ^ bits)) * (2 ^ (WideBits - bits))])

WideShr(s, k) == WideShrBy(s, k \div WideBits, k % WideBits)

\* One of the k lowest bits of s is set.
WideLowBy(s, limbs, bits) ==
    \E i \in 1 .. Len(s) :
        \/ i <= limbs /\ s[i] # 0
        \/ i = limbs + 1 /\ s[i] % (2 ^ bits) # 0

WideLow(s, k) == WideLowBy(s, k \div WideBits, k % WideBits)

\* Bit k of s, the lowest being bit 0.
WideBit(s, k) == (WideLimb(s, k \div WideBits + 1) \div (2 ^ (k % WideBits))) % 2

WideAdd(a, b) ==
    WideCarry([i \in 1 .. Max(Len(a), Len(b)) |-> WideLimb(a, i) + WideLimb(b, i)], 0)

\* a - b, for a >= b
WideSub(a, b) ==
    WideTrim(WideCarry([i \in 1 .. Len(a) |-> a[i] - WideLimb(b, i)], 0))

\* a < b, from the highest limb down to limb i
RECURSIVE WideLtFrom(_, _, _)
WideLtFrom(a, b, i) ==
    IF i = 0 THEN FALSE
    ELSE IF a[i] # b[i] THEN a[i] < b[i]
    ELSE WideLtFrom(a, b, i - 1)

WideLt(a, b) == IF Len(a) # Len(b) THEN Len(a) < Len(b) ELSE WideLtFrom(a, b, Len(a))

\* The sum of the a[i] * b[k + 1 - i] from i on: limb k of the product
\* before the carries.  With at most four limbs a side it stays below 2^31.
RECURSIVE WideDot(_, _, _, _)
WideDot(a, b, k, i) ==
    IF i > Len(a) \/ i > k THEN 0
    ELSE a[i] * WideLimb(b, k + 1 - i) + WideDot(a, b, k, i + 1)

WideMul(a, b) ==
    IF a = <<>> \/ b = <<>> THEN <<>>
    ELSE WideTrim(WideCarry([k \in 1 .. (Len(a) + Len(b) - 1) |-> WideDot(a, b, k, 1)], 0))

\* A finite f64: (-1)^neg * m * 2^e with m a Wide of at most 54 bits.
F64(neg, m, e) == [neg |-> neg, m |-> m, e |-> e]

\* q, one higher when the bits dropped round up.
WideRoundUp(q, up) == IF up THEN WideAdd(q, <<1>>) ELSE q

\* m * 2^e with the lowest `shift` bits of m rounded away, ties to even.
F64RoundBy(neg, m, e, shift) ==
    IF shift <= 0 THEN F64(neg, m, e)
    ELSE F64(neg,
             WideRoundUp(WideShr(m, shift),
                         /\ WideBit(m, shift - 1) = 1
                         /\ (WideLow(m, shift - 1) \/ WideBit(m, shift) = 1)),
             e + shift)

\* The f64 nearest to m * 2^e, whose significand has 53 bits; the values
\* met are far from the ends of the exponent range.
F64Round(neg, m, e) == F64RoundBy(neg, m, e, WideBitLen(m) - 53)

\* (double) x of a finite f32, and (double) n
F64OfF32(x) == F64(x.neg, WideOfInt(x.m), x.e)

F64OfInt(n) == F64(n < 0, WideOfInt(Abs(n)), 0)

F64Neg(a) == [a EXCEPT !.neg = ~@]

\* a * b
F64Mul(a, b) ==
    IF a.m = <<>> \/ b.m = <<>> THEN F64(a.neg # b.neg, <<>>, 0)
    ELSE F64Round(a.neg # b.neg, WideMul(a.m, b.m), a.e + b.e)

\* |a| + |b| or the difference of the two, with both significands brought
\* to the exponent e.
F64AddAligned(a_neg, ma, b_neg, mb, e) ==
    IF a_neg = b_neg THEN F64Round(a_neg, WideAdd(ma, mb), e)
    ELSE IF ma = mb THEN F64(FALSE, <<>>, 0)
    ELSE IF WideLt(ma, mb) THEN F64Round(b_neg, WideSub(mb, ma), e)
    ELSE F64Round(a_neg, WideSub(ma, mb), e)

F64AddAt(a, b, e) ==
    F64AddAligned(a.neg, WideShl(a.m, a.e - e), b.neg, WideShl(b.m, b.e - e), e)

\* a + b
F64Add(a, b) ==
    IF a.m = <<>> THEN (IF b.m = <<>> THEN F64(a.neg /\ b.neg, <<>>, 0) ELSE b)
    ELSE IF b.m = <<>> THEN a
    ELSE F64AddAt(a, b, Min(a.e, b.e))

F64Sub(a, b) == F64Add(a, F64Neg(b))

\* (int32_t) a: towards zero.
F64ToInt(a) ==
    LET whole == IF a.e >= 0 THEN WideToInt(WideShl(a.m, a.e))
                 ELSE WideToInt(WideShr(a.m, -a.e))
    IN  IF a.neg THEN -whole ELSE whole

\* The 30 highest bits of m, the bits below them sticky.
F64ToF32By(a, shift) ==
    IF shift <= 0 THEN F32Round(a.neg, WideToInt(a.m), a.e, FALSE)
    ELSE F32Round(a.neg, WideToInt(WideShr(a.m, shift)), a.e + shift, WideLow(a.m, shift))

\* (float) a
F64ToF32(a) ==
    IF a.m = <<>> THEN F32(a.neg, FALSE, 0, 0) ELSE F64ToF32By(a, WideBitLen(a.m) - 30)

\* __sincosf_table: 2/pi * 2^24, pi/2, and the coefficients of the
\* polynomials of cosine (c0 .. c4) and sine (s1 .. s3); the second entry
\* holds the cosine negated.
sincosf_table ==
    << [hpi_inv |-> F64(FALSE, <<2179, 14119, 13062, 1303>>, -29),
        hpi |-> F64(FALSE, <<1443, 10786, 1014, 201>>, -49),
        c0 |-> F64(FALSE, <<1>>, 0),
        c1 |-> F64(TRUE, <<6279, 15628, 16383, 511>>, -52),
        c2 |-> F64(FALSE, <<3865, 1050, 5438, 1365>>, -57),
        c3 |-> F64(TRUE, <<13725, 8808, 2174, 1456>>, -62),
        c4 |-> F64(FALSE, <<14531, 2543, 13360, 1636>>, -68),
        s1 |-> F64(TRUE, <<9731, 9814, 5445, 1365>>, -55),
        s2 |-> F64(FALSE, <<753, 1315, 472, 273>>, -57),
        s3 |-> F64(TRUE, <<13257, 14196, 5036, 409>>, -63)],
       [hpi_inv |-> F64(FALSE, <<2179, 14119, 13062, 1303>>, -29),
        hpi |-> F64(FALSE, <<1443, 10786, 1014, 201>>, -49),
        c0 |-> F64(TRUE, <<1>>, 0),
        c1 |-> F64(FALSE, <<6279, 15628, 16383, 511>>, -52),
        c2 |-> F64(TRUE, <<3865, 1050, 5438, 1365>>, -57),
        c3 |-> F64(FALSE, <<13725, 8808, 2174, 1456>>, -62),
        c4 |-> F64(TRUE, <<14531, 2543, 13360, 1636>>, -68),
        s1 |-> F64(TRUE, <<9731, 9814, 5445, 1365>>, -55),
        s2 |-> F64(FALSE, <<753, 1315, 472, 273>>, -57),
        s3 |-> F64(TRUE, <<13257, 14196, 5036, 409>>, -63)] >>

\* x + x3 s1 + x3 x2 (s2 + x2 s3)
sinf_poly_sin(x, x2, x3, p) ==
    F64Add(F64Add(x, F64Mul(x3, p.s1)),
           F64Mul(F64Mul(x3, x2), F64Add(p.s2, F64Mul(x2, p.s3))))

\* c0 + x2 c1 + x4 c2 + x4 x2 (c3 + x2 c4)
sinf_poly_cos(x2, x4, p) ==
    F64Add(F64Add(F64Add(p.c0, F64Mul(x2, p.c1)), F64Mul(x4, p.c2)),
           F64Mul(F64Mul(x4, x2), F64Add(p.c3, F64Mul(x2, p.c4))))

\* sinf_poly: the sine of x for an even n and the cosine for an odd one,
\* rounded to f32.
sinf_poly(x, x2, p, n) ==
    IF n % 2 = 0 THEN F64ToF32(sinf_poly_sin(x, x2, F64Mul(x, x2), p))
    ELSE F64ToF32(sinf_poly_cos(x2, F64Mul(x2, x2), p))

\* The reduced argument r.x in the quadrant r.n: the sign p->sign[r.q & 3]
\* and, for r.q & 2, the table entry of the half turn; r.q is n, plus the
\* sign bit of y after reduce_large.
sinf_quadrant(r) ==
    sinf_poly(IF r.q % 4 \in {1, 2} THEN F64Neg(r.x) ELSE r.x, F64Mul(r.x, r.x),
              sincosf_table[IF r.q % 4 \in {2, 3} THEN 2 ELSE 1], r.n)

\* reduce_fast: x - n * pi/2 for the n that r = x * hpi_inv gives.
sinf_reduced(x, n) ==
    [x |-> F64Sub(x, F64Mul(F64OfInt(n), sincosf_table[1].hpi)), q |-> n, n |-> n]

\* The n of reduce_fast, and 0 below 0.75 (the exponent and three bits of
\* pi/4), where sinf evaluates the sine polynomial on x itself: the
\* reduction by n = 0 leaves x, its sign and the table as they are.
sinf_n(y, x) ==
    IF F32Lt(F32Abs(y), F32OfDyadic(3, 2, FALSE)) THEN 0
    ELSE (F64ToInt(F64Mul(x, sincosf_table[1].hpi_inv)) + 2 ^ 23) \div (2 ^ 24)

sinf_reduce_fast(y, x) == sinf_reduced(x, sinf_n(y, x))

\* The k lowest bits of s.
WideLowBits(s, k) ==
    IF WideBitLen(s) <= k THEN s ELSE WideSub(s, WideShl(WideShr(s, k), k))

\* __inv_pio4: the first 192 bits of 2/pi; entry j of the table is the 32
\* bits that end with byte j.
inv_pio4_bits ==
    <<4161, 12558, 6547, 6309, 219, 4983, 8019, 5620, 15399, 5287, 9281, 7059, 14723, 651>>

inv_pio4(j) == WideLowBits(WideShr(inv_pio4_bits, 8 * (23 - j)), 32)

\* pi63 = 0x1.921FB54442D18p-62, pi / 2^63
pi63 == F64(FALSE, <<1443, 10786, 1014, 201>>, -111)

\* The exponent field of a normal f32.
F32ExponentBits(y) == Top(y) + 126

\* xi = (xi & 0xffffff) | 0x800000, shifted left by (xi >> 23) & 7
reduce_large_xi(y) ==
    WideOfInt((y.m * 2 ^ (F32Bits - BitLen(y.m))) * 2 ^ (F32ExponentBits(y) % 8))

\* res0 = xi * arr[0] in 32 bits, res1 = xi * arr[4] and res2 = xi * arr[8]
\* in 64; then res0 = ((res2 >> 32) | (res0 << 32)) + res1, in 64 bits.
reduce_large_res0(xi, arr) ==
    WideLowBits(
        WideAdd(WideAdd(WideShr(WideMul(xi, inv_pio4(arr + 8)), 32),
                        WideShl(WideLowBits(WideMul(xi, inv_pio4(arr)), 32), 32)),
                WideMul(xi, inv_pio4(arr + 4))),
        64)

\* n = (res0 + (1ULL << 61)) >> 62
reduce_large_n(res0) ==
    WideToInt(WideShr(WideLowBits(WideAdd(res0, WideShl(<<1>>, 61)), 64), 62))

\* (double) (int64_t) res0
F64OfInt64(res0) ==
    IF WideBit(res0, 63) = 1 THEN F64Round(TRUE, WideSub(WideShl(<<1>>, 64), res0), 0)
    ELSE F64Round(FALSE, res0, 0)

\* res0 -= n << 62, in 64 bits, and x = (int64_t) res0 * pi63
reduce_large_x(res0, n) ==
    F64Mul(F64OfInt64(WideLowBits(WideSub(WideAdd(res0, WideShl(<<1>>, 64)),
                                          WideShl(WideOfInt(n), 62)), 64)),
           pi63)

reduce_large_of(y, res0, n) ==
    [x |-> reduce_large_x(res0, n), q |-> n + (IF y.neg THEN 1 ELSE 0), n |-> n]

reduce_large_from(y, res0) == reduce_large_of(y, res0, reduce_large_n(res0))

\* reduce_large: |y| modulo pi/2 through the 192 bits of 2/pi, for
\* 120 <= |y|; arr = &__inv_pio4[(xi >> 26) & 15].
reduce_large(y) ==
    reduce_large_from(y, reduce_large_res0(reduce_large_xi(y),
                                           (F32ExponentBits(y) \div 8) % 16))

\* sinf(y): NaN of a NaN and of an infinity, y itself below 2^-12, the sine
\* polynomial below 0.75, reduce_fast below 120 and reduce_large above.
sinf(y) ==
    IF y.inf THEN F32NaN
    ELSE IF y.m = 0 \/ Top(y) <= -12 THEN y
    ELSE sinf_quadrant(IF F32Lt(F32Abs(y), F32OfInt(120))
                       THEN sinf_reduce_fast(y, F64OfF32(y))
                       ELSE reduce_large(y))

\* The constants of expm1f.
expm1f_ln2_hi == F32(FALSE, FALSE, 90851, -17)

expm1f_ln2_lo == F32(FALSE, FALSE, 9959377, -40)

expm1f_invln2 == F32(FALSE, FALSE, 12102203, -23)

expm1f_Q ==
    << F32(TRUE, FALSE, 8947849, -28), F32(FALSE, FALSE, 13634817, -33),
       F32(TRUE, FALSE, 10907853, -37), F32(FALSE, FALSE, 2203541, -39),
       F32(TRUE, FALSE, 14151099, -46) >>

expm1f_huge == F32(FALSE, FALSE, 6617445, 77)

expm1f_tiny == F32(FALSE, FALSE, 332307, -118)

F32Two == F32OfInt(2)

F32Half == F32OfDyadic(1, 1, FALSE)

\* The end of expm1f for k # 0: the result put together from x, e and 2^k.
expm1f_scaled(x, k, e) ==
    IF k = -1 THEN F32Sub(F32Mul(F32Half, F32Sub(x, e)), F32Half)
    ELSE IF k = 1
    THEN (IF F32Lt(x, F32OfDyadic(-1, 2, FALSE))
          THEN F32Mul(F32OfInt(-2), F32Sub(e, F32Add(x, F32Half)))
          ELSE F32Add(F32One, F32Mul(F32Two, F32Sub(x, e))))
    ELSE IF k <= -2 \/ k > 56
    THEN F32Sub(F32Scale(F32Sub(F32One, F32Sub(e, x)), k), F32One)
    ELSE IF k < 23
    THEN F32Scale(F32Sub(F32OfDyadic(2 ^ k - 1, k, FALSE), F32Sub(e, x)), k)
    ELSE F32Scale(F32Add(F32Sub(x, F32Add(e, F32(FALSE, FALSE, 1, -k))), F32One), k)

expm1f_end(x, c, k, hxs, e) ==
    IF k = 0 THEN F32Sub(x, F32Sub(F32Mul(x, e), hxs))
    ELSE expm1f_scaled(x, k, F32Sub(F32Sub(F32Mul(x, F32Sub(e, c)), c), hxs))

\* e = hxs * ((r1 - t) / (6.0 - x * t))
expm1f_t(x, c, k, hxs, r1, t) ==
    expm1f_end(x, c, k, hxs,
               F32Mul(hxs, F32Div(F32Sub(r1, t), F32Sub(F32OfInt(6), F32Mul(x, t)))))

\* t = 3.0 - r1 * hfx
expm1f_r1(x, c, k, hfx, hxs, r1) ==
    expm1f_t(x, c, k, hxs, r1, F32Sub(F32OfInt(3), F32Mul(r1, hfx)))

\* r1 = 1 + hxs * (Q1 + hxs * (Q2 + hxs * (Q3 + hxs * (Q4 + hxs * Q5))))
expm1f_hxs(x, c, k, hfx, hxs) ==
    expm1f_r1(x, c, k, hfx, hxs,
        F32Add(F32One,
          F32Mul(hxs, F32Add(expm1f_Q[1],
            F32Mul(hxs, F32Add(expm1f_Q[2],
              F32Mul(hxs, F32Add(expm1f_Q[3],
                F32Mul(hxs, F32Add(expm1f_Q[4], F32Mul(hxs, expm1f_Q[5])))))))))))

\* hfx = 0.5 * x, hxs = x * hfx
expm1f_hfx(x, c, k, hfx) == expm1f_hxs(x, c, k, hfx, F32Mul(x, hfx))

expm1f_poly(x, c, k) == expm1f_hfx(x, c, k, F32Mul(F32Half, x))

\* x = hi - lo, c = (hi - x) - lo
expm1f_x(hi, lo, k, x) == expm1f_poly(x, F32Sub(F32Sub(hi, x), lo), k)

expm1f_hi_lo(hi, lo, k) == expm1f_x(hi, lo, k, F32Sub(hi, lo))

\* hi = x - k * ln2_hi, lo = k * ln2_lo
expm1f_k(x, k) ==
    expm1f_hi_lo(F32Sub(x, F32Mul(F32OfInt(k), expm1f_ln2_hi)),
                 F32Mul(F32OfInt(k), expm1f_ln2_lo), k)

\* The k of the reduction: 0 up to 0.5 ln 2, where x is used as it is (hi
\* and lo of k = 0 are x and 0), the sign of x up to 1.5 ln 2, where the
\* code writes hi = x -+ ln2_hi and lo = +-ln2_lo (the products by 1.0 and
\* -1.0 are exact), and the integer nearest to x / ln 2 above.
expm1f_k_of(x) ==
    IF ~F32Lt(F32(FALSE, FALSE, 1453635, -22), F32Abs(x)) THEN 0
    ELSE IF F32Lt(F32Abs(x), F32(FALSE, FALSE, 4360905, -22))
    THEN (IF x.neg THEN -1 ELSE 1)
    ELSE F32ToInt(F32Add(F32Mul(expm1f_invln2, x),
                         IF x.neg THEN F32Neg(F32Half) ELSE F32Half))

\* expm1f(x) of a finite x below 88 in magnitude: -1 from 27 ln 2 down,
\* x itself below 2^-25, and otherwise x less k ln 2 through a rational
\* function.
expm1f(x) ==
    IF x.neg /\ ~F32Lt(F32Abs(x), F32(FALSE, FALSE, 2453009, -17))
    THEN F32Sub(expm1f_tiny, F32One)
    ELSE IF ~F32Lt(F32(FALSE, FALSE, 1453635, -22), F32Abs(x)) /\ (x.m = 0 \/ Top(x) <= -25)
    THEN F32Sub(x, F32Sub(F32Add(expm1f_huge, x), F32Add(expm1f_huge, x)))
    ELSE expm1f_k(x, expm1f_k_of(x))

\* z = one - two / (t + two), for |x| >= 1
tanhf_large(t) == F32Sub(F32One, F32Div(F32Two, F32Add(t, F32Two)))

\* z = -t / (t + two), for |x| < 1
tanhf_small(t) == F32Div(F32Neg(t), F32Add(t, F32Two))

\* t = expm1f(-2 |x|) below 1 and expm1f(2 |x|) from 1 on.
tanhf_z(x, t) == IF F32Lt(F32Abs(x), F32One) THEN tanhf_small(t) ELSE tanhf_large(t)

\* tanhf(x): the sign of x on the z computed from |x|.
tanhf(x) ==
    IF IsNaN(x) THEN x
    ELSE IF x.inf THEN F32(x.neg, FALSE, 1, 0)
    ELSE IF x.m = 0 THEN x
    ELSE IF Top(x) <= -55 THEN F32Mul(x, F32Add(F32One, x))
    ELSE IF ~F32Lt(F32Abs(x), F32OfInt(22))
    THEN F32(x.neg, FALSE, 1, 0)
    ELSE [tanhf_z(x, expm1f(F32Mul(IF F32Lt(F32Abs(x), F32One) THEN F32OfInt(-2) ELSE F32Two,
                                   F32Abs(x))))
             EXCEPT !.neg = (@ # x.neg)]

\* ------------------------------------------------------------------------
\* The signed normalisers on f32 values (continuous.rs,
\* constraint_resolvers.rs), operation by operation.

\* std::f32::consts::PI
F32PI == F32(FALSE, FALSE, 13176795, -22)

F32Four == F32OfInt(4)

non_normal_to_default_f32(value) == IF F32IsNormal(value) THEN value ELSE F32Zero

SNFloat_new_f32(value) ==
    IF F32Le(F32MinusOne, value) /\ F32Le(value, F32One) THEN Ok(value) ELSE Panic

SNFloat_new_clamped_f32(value) == Ok(F32MinOf(F32MaxOf(value, F32MinusOne), F32One))

SNFloat_new_random_clamped_f32(value, rnd) ==
    IF F32Lt(value, F32MinusOne) \/ F32Lt(F32One, value) THEN Ok(rnd) ELSE Ok(value)

\* scaled_value.fract() - scaled_value.signum().min(0.0)
WrapUp(scaled_value) ==
    F32Sub(F32Fract(scaled_value), F32MinOf(F32Signum(scaled_value), F32Zero))

\* new_sawtooth: scaled_value = (value + 1.0) / 2.0
SNFloat_new_sawtooth_f32(value) ==
    SNFloat_new_f32(F32Sub(F32Mul(WrapUp(F32Div(F32Add(value, F32One), F32Two)), F32Two),
                           F32One))

\* new_triangle: scaled_value = (value - 1.0) / 4.0
SNFloat_new_triangle_f32(value) ==
    SNFloat_new_f32(
        F32Sub(F32Mul(F32Abs(F32Sub(WrapUp(F32Div(F32Sub(value, F32One), F32Four)), F32Half)),
                      F32Four),
               F32One))

SNFloat_new_sin_f32(value) == SNFloat_new_f32(sinf(F32Div(value, F32Mul(F32Two, F32PI))))

SNFloat_new_sin_repeating_f32(value) == SNFloat_new_f32(sinf(F32Mul(value, F32PI)))

SNFloat_new_fractional_f32(value) == SNFloat_new_f32(F32Fract(value))

SNFloat_new_tanh_f32(value) == SNFloat_new_f32(tanhf(value))

\* SFloatNormaliser::normalise; rnd is what SNFloat::random draws.
SFloatNormaliser_normalise_f32(self, value, rnd) ==
    CASE self = "Sawtooth" -> SNFloat_new_sawtooth_f32(non_normal_to_default_f32(value))
      [] self = "Triangle" -> SNFloat_new_triangle_f32(non_normal_to_default_f32(value))
      [] self = "Sin" -> SNFloat_new_sin_f32(non_normal_to_default_f32(value))
      [] self = "SinRepeating" -> SNFloat_new_sin_repeating_f32(non_normal_to_default_f32(value))
      [] self = "TanH" -> SNFloat_new_tanh_f32(non_normal_to_default_f32(value))
      [] self = "Clamp" -> SNFloat_new_clamped_f32(non_normal_to_default_f32(value))
      [] self = "Fractional" -> SNFloat_new_fractional_f32(non_normal_to_default_f32(value))
      [] self = "Random" -> SNFloat_new_random_clamped_f32(non_normal_to_default_f32(value), rnd)

\* ------------------------------------------------------------------------
\* The unsigned normalisers on f32 values (continuous.rs,
\* constraint_resolvers.rs), operation by operation.

UNFloat_new_f32(value) ==
    IF F32Le(F32Zero, value) /\ F32Le(value, F32One) THEN Ok(value) ELSE Panic

\* value.max(0.0).min(1.0); the max of the zeros -0.0 and 0.0 is either of
\* them, as the build has it: -0.0 when negative_zero_max.
UNFloat_new_clamped_f32(value, negative_zero_max) ==
    IF IsZero(value) /\ value.neg /\ ~negative_zero_max
    THEN Ok(F32MinOf(F32Zero, F32One))
    ELSE Ok(F32MinOf(F32MaxOf(value, F32Zero), F32One))

UNFloat_new_random_clamped_f32(value, rnd) ==
    IF F32Lt(value, F32Zero) \/ F32Lt(F32One, value) THEN Ok(rnd) ELSE Ok(value)

\* new_sawtooth: value.fract() - value.signum().min(0.0)
UNFloat_new_sawtooth_f32(value) == UNFloat_new_f32(WrapUp(value))

\* new_triangle: scaled_value = (value - 1.0) / 2.0
UNFloat_new_triangle_f32(value) ==
    UNFloat_new_f32(
        F32Mul(F32Abs(F32Sub(WrapUp(F32Div(F32Sub(value, F32One), F32Two)), F32Half)),
               F32Two))

\* scaled_value.sin() / 2.0 + 0.5
UNFloat_of_sin(scaled_value) ==
    UNFloat_new_f32(F32Add(F32Div(sinf(scaled_value), F32Two), F32Half))

\* new_sin: scaled_value = (value - 0.5) * PI
UNFloat_new_sin_f32(value) == UNFloat_of_sin(F32Mul(F32Sub(value, F32Half), F32PI))

\* new_sin_repeating: scaled_value = (value + 0.5) * PI * 2.0
UNFloat_new_sin_repeating_f32(value) ==
    UNFloat_of_sin(F32Mul(F32Mul(F32Add(value, F32Half), F32PI), F32Two))

\* UFloatNormaliser::normalise; rnd is what UNFloat::random draws and
\* negative_zero_max the zero f32::max gives for -0.0 and 0.0.
UFloatNormaliser_normalise_f32(self, value, rnd, negative_zero_max) ==
    CASE self = "Sawtooth" -> UNFloat_new_sawtooth_f32(non_normal_to_default_f32(value))
      [] self = "Triangle" -> UNFloat_new_triangle_f32(non_normal_to_default_f32(value))
      [] self = "Sin" -> UNFloat_new_sin_f32(non_normal_to_default_f32(value))
      [] self = "SinRepeating" -> UNFloat_new_sin_repeating_f32(non_normal_to_default_f32(value))
      [] self = "Clamp" ->
            UNFloat_new_clamped_f32(non_normal_to_default_f32(value), negative_zero_max)
      [] self = "Random" -> UNFloat_new_random_clamped_f32(non_normal_to_default_f32(value), rnd)

\* The range test of visit_str with "y > 1.0" left out.
OutOfRange_NoUpperY(x, y) ==
    F32Lt(x, F32MinusOne) \/ F32Lt(F32One, x) \/ F32Lt(y, F32MinusOne)

\* if x < -1.0 || x > 1.0 || y < -1.0 || y > 1.0: each comparison is false
\* of a NaN.
OutOfRange(x, y) ==
    \/ F32Lt(x, F32MinusOne)
    \/ F32Lt(F32One, x)
    \/ F32Lt(y, F32MinusOne)
    \/ F32Lt(F32One, y)

\* SNPoint::new of two f32: the assertion tests x >= -1 and y <= 1, each
\* twice, and fails on a NaN in either.
SNPoint_new_f32(x, y) ==
    IF /\ F32Le(F32MinusOne, x)
       /\ F32Le(y, F32One)
       /\ F32Le(F32MinusOne, x)
       /\ F32Le(y, F32One)
    THEN [panic |-> FALSE, v |-> <<x, y>>]
    ELSE [panic |-> TRUE, v |-> <<F32Zero, F32Zero>>]

\* SNComplex::new of two f32 widened to f64, which changes no value.
SNComplex_new_f32(re, im) ==
    IF /\ F32Le(F32MinusOne, re)
       /\ F32Le(re, F32One)
       /\ F32Le(F32MinusOne, im)
       /\ F32Le(im, F32One)
    THEN [panic |-> FALSE, v |-> <<re, im>>]
    ELSE [panic |-> TRUE, v |-> <<F32Zero, F32Zero>>]

\* ------------------------------------------------------------------------
\* poisson() (point_sets.rs) as a state machine
\*
\* The sampler runs on f32 values, operation by operation.  It is called
\* with radius = 0.70710677, the f32 for which cell_size = radius / SQRT_2
\* is 0.5 and the grid has 4 x 4 cells.
\*
\*   p_pc          "idle" (not called), "start", "loop", "done", "panic"
\*   p_count       the argument count
\*   p_normaliser  the argument normaliser
\*   p_points      the Vec points, of <<x, y>>, two f32
\*   p_active      the Vec active, of indices into points (from 0)
\*   p_grid        the Array2 grid: cell -> index into points, or None

None == -1

\* std::f32::consts::SQRT_2
SQRT_2 == F32(FALSE, FALSE, 11863283, -23)

\* The argument radius.
radius == F32(FALSE, FALSE, 11863283, -24)

cell_size == F32Div(radius, SQRT_2)

\* (1.0 / cell_size).ceil() as usize * 2
grid_size == F32CeilAsUsize(F32Div(F32One, cell_size)) * 2

GridCellIndices == (0 .. (grid_size - 1)) \X (0 .. (grid_size - 1))

\* (((x + 1.0) / cell_size).floor() as usize).min(grid_size - 1)
p_to_grid_index(x) ==
    Min(F32FloorAsUsize(F32Div(F32Add(x, F32One), cell_size)), grid_size - 1)

p_to_grid(p) == <<p_to_grid_index(p[1]), p_to_grid_index(p[2])>>

\* The largest count poisson() is called with.
MaxCount == 3

\* The lattice value v as the f32 nearest to v / One.
LatticeF32 == [v \in (-One) .. One |-> F32OfRatio(v, One)]

\* The seed point: rng.gen() is a float of [0, 1), sampled at 0 for x and
\* at 0 and 0.5 for y.
SeedCoordinates == {LatticeF32[0], LatticeF32[Half]}

SeedPoints == {LatticeF32[0]} \X SeedCoordinates

\* The draws (theta, r) of one candidate, as the offset (dx, dy) they give
\* in units of 1 / One: r in radius ..= 2 radius makes
\* radius^2 <= dx^2 + dy^2 <= 4 radius^2, and radius^2 is half of One^2.
\* The offsets sampled are those with one component a lattice step short
\* of a cell and the other a lattice step beyond it.
OffsetSteps == {-(Half + 1), -(Half - 1), Half - 1, Half + 1}

CandidateOffsets ==
    {d \in OffsetSteps \X OffsetSteps :
        /\ d[1] * d[1] # d[2] * d[2]
        /\ 2 * (d[1] * d[1] + d[2] * d[2]) >= One * One
        /\ d[1] * d[1] + d[2] * d[2] <= 2 * One * One}

\* The values SNFloat::random, rng.gen_range(-1.0..=1.0), is sampled at, in
\* units of 1 / One: the two ends of the range.
RandomDraws == {-One, One}

\* The draws of SNFloat::random behind normalise(value): only
\* new_random_clamped draws, and only for a value outside [-1, 1].
CoordinateDraws(self, value) ==
    IF /\ self = "Random"
       /\ \/ F32Lt(non_normal_to_default_f32(value), F32MinusOne)
          \/ F32Lt(F32One, non_normal_to_default_f32(value))
    THEN RandomDraws
    ELSE {0}

\* normaliser.normalise(value) for each value of `values` and each draw.
NormaliseAll(self, values) ==
    [value \in values |->
        [rnd \in CoordinateDraws(self, value) |->
            SFloatNormaliser_normalise_f32(self, value, LatticeF32[rnd])]]

\* The coordinates that normalise returned in `made`.
NormalisedCoordinates(self, made) ==
    UNION {{made[value][rnd].v : rnd \in {r \in DOMAIN made[value] : ~made[value][r].panic}} :
              value \in DOMAIN made}

\* p.x + dx for each coordinate and each offset component.
CandidateSums(coordinates) ==
    {F32Add(c, LatticeF32[d]) : c \in coordinates, d \in OffsetSteps}

\* The table of normalise over the sums that candidates around points of
\* the coordinates `coordinates` can have, and, for `rounds` rounds, around
\* the points these candidates become.
RECURSIVE NormaliseRounds(_, _, _, _)
NormaliseNext(self, table, made, rounds) ==
    NormaliseRounds(self, table @@ made, NormalisedCoordinates(self, made), rounds - 1)

NormaliseRounds(self, table, coordinates, rounds) ==
    IF rounds = 0 THEN table
    ELSE NormaliseNext(self, table,
                       NormaliseAll(self, CandidateSums(coordinates) \ DOMAIN table), rounds)

\* normaliser.normalise(p.x + dx) wherever poisson() can compute it: a
\* candidate is built around a point that is the seed or one of the
\* MaxCount - 2 points placed before the last.  The values are computed
\* once and looked up by the steps.
Normalised ==
    [self \in SFloatNormalisers |->
        NormaliseRounds(self, <<>>, SeedCoordinates, MaxCount - 1)]

\* The candidate built from the active point p, the offset d and the draws
\* rnd of the Random normaliser, normalise being the table of the
\* normaliser:
\* SNPoint::from_snfloats(normaliser.normalise(p.x + dx),
\*                        normaliser.normalise(p.y + dy))
CandidateOf(x, y) == IF x.panic \/ y.panic THEN Panic ELSE Ok(<<x.v, y.v>>)

Candidate(normalise, p, d, rnd) ==
    CandidateOf(normalise[F32Add(p[1], LatticeF32[d[1]])][rnd[1]],
                normalise[F32Add(p[2], LatticeF32[d[2]])][rnd[2]])

\* The draws of SNFloat::random behind the candidate at offset d of p, one
\* per coordinate.
CandidateDraws(normalise, p, d) ==
    (DOMAIN normalise[F32Add(p[1], LatticeF32[d[1]])])
        \X (DOMAIN normalise[F32Add(p[2], LatticeF32[d[2]])])

\* The draws (offset, draws of the normaliser) of a candidate around p.
CandidateChoices(normalise, p) ==
    UNION {{d} \X CandidateDraws(normalise, p, d) : d \in CandidateOffsets}

ClampCell(g) == Min(Max(g, 0), grid_size - 1)

\* The point registered in cell g is at distance <= radius of new_p.
TooClose(points, new_p, i) ==
    i # None /\ F32Le(F32Distance(points[i + 1], new_p), radius)

\* The candidate is dropped (continue 'candidates): a point registered in
\* its own or one of the 8 neighbouring cells, indices clamped to the grid,
\* is at distance <= radius.
RejectedIn(points, grid, new_p, g) ==
    \E tx \in -1 .. 1, ty \in -1 .. 1 :
        TooClose(points, new_p, grid[<<ClampCell(g[1] + tx), ClampCell(g[2] + ty)>>])

Rejected(points, grid, new_p) == RejectedIn(points, grid, new_p, p_to_grid(new_p))

\* The candidates around the active point p that the neighbourhood test
\* drops, as the draws that give them.
DroppedCandidate(points, grid, made) == ~made.panic /\ Rejected(points, grid, made.v)

DroppedCandidates(normalise, points, grid, p) ==
    {c \in CandidateChoices(normalise, p) :
        DroppedCandidate(points, grid, Candidate(normalise, p, c[1], c[2]))}

\* The loop condition with <= for <.
LoopGuard_OneMore == Len(p_points) <= p_count /\ p_active # <<>>

\* while points.len() < count && !active.is_empty()
LoopGuard == Len(p_points) < p_count /\ p_active # <<>>

\* A remove that moves the entry to the end of the vector.
RemoveAt_Rotate(s, idx) ==
    [j \in 1 .. Len(s) |->
        IF j = Len(s) THEN s[idx + 1] ELSE IF j <= idx THEN s[j] ELSE s[j + 1]]

\* Vec::remove at the 0-based index idx.
RemoveAt(s, idx) == [j \in 1 .. (Len(s) - 1) |-> IF j <= idx THEN s[j] ELSE s[j + 1]]

\* The assertions on the arguments, then the seed point.
PoissonSeed ==
    /\ p_pc = "start"
    /\ IF p_count > 0
       THEN \E p0 \in SeedPoints :
                /\ p_pc' = IF SNPoint_new_f32(p0[1], p0[2]).panic THEN "panic" ELSE "loop"
                /\ p_points' = <<p0>>
                /\ p_active' = <<0>>
                /\ p_grid' = [p_grid EXCEPT ![p_to_grid(p0)] = 0]
       ELSE /\ p_pc' = "panic"
            /\ UNCHANGED <<p_points, p_active, p_grid>>
    /\ UNCHANGED <<p_count, p_normaliser, call, ret, preloaderVars>>

\* The candidate made is accepted: it is registered in its cell, made
\* active and pushed.
PlaceCandidate(made) ==
    /\ ~made.panic
    /\ ~Rejected(p_points, p_grid, made.v)
    /\ p_grid' = [p_grid EXCEPT ![p_to_grid(made.v)] = Len(p_points)]
    /\ p_active' = Append(p_active, Len(p_points))
    /\ p_points' = Append(p_points, made.v)

\* A candidate around the active point p is accepted.
PlaceAround(normalise, p) ==
    \E c \in CandidateChoices(normalise, p) :
        PlaceCandidate(Candidate(normalise, p, c[1], c[2]))

\* One iteration of the loop that ends with a candidate accepted: the
\* candidates before it, if any, were dropped.
PoissonPlace ==
    /\ p_pc = "loop"
    /\ LoopGuard
    /\ \E active_idx \in 0 .. (Len(p_active) - 1) :
          PlaceAround(Normalised[p_normaliser], p_points[p_active[active_idx + 1] + 1])
    /\ UNCHANGED <<p_pc, p_count, p_normaliser, call, ret, preloaderVars>>

\* One iteration of the loop in which all K = 30 candidates were dropped
\* (the same dropped candidate may be drawn every time): the active entry is
\* removed, the point stays in points.
PoissonRemove ==
    /\ p_pc = "loop"
    /\ LoopGuard
    /\ \E active_idx \in 0 .. (Len(p_active) - 1) :
            /\ DroppedCandidates(Normalised[p_normaliser], p_points, p_grid,
                                 p_points[p_active[active_idx + 1] + 1]) # {}
            /\ p_active' = RemoveAt(p_active, active_idx)
    /\ UNCHANGED <<p_pc, p_count, p_normaliser, p_points, p_grid, call, ret, preloaderVars>>

\* The loop condition fails: poisson() returns points.
PoissonReturn ==
    /\ p_pc = "loop"
    /\ ~LoopGuard
    /\ p_pc' = "done"
    /\ UNCHANGED <<p_count, p_normaliser, p_points, p_active, p_grid, call, ret, preloaderVars>>

\* No Preloader has been built.
PreloaderIdle ==
    /\ pool_size = 0
    /\ running = FALSE
    /\ channel = <<>>
    /\ child_pc = "none"
    /\ child_item = None
    /\ parent_pc = "none"
    /\ generated = 0
    /\ received = 0
    /\ result = [op |-> "none"]
    /\ late_sends = 0

\* poisson() is not running.
PoissonIdle ==
    /\ p_pc = "idle"
    /\ p_count = 0
    /\ p_normaliser = "Clamp"
    /\ p_points = <<>>
    /\ p_active = <<>>
    /\ p_grid = [c \in GridCellIndices |-> None]

PoissonInit ==
    /\ call = [fn |-> "none"]
    /\ ret = Ok(0)
    /\ p_pc = "start"
    /\ p_count \in 0 .. MaxCount
    /\ p_normaliser \in SFloatNormalisers
    /\ p_points = <<>>
    /\ p_active = <<>>
    /\ p_grid = [c \in GridCellIndices |-> None]
    /\ PreloaderIdle

PoissonNext ==
    \/ PoissonSeed
    \/ PoissonPlace
    \/ PoissonRemove
    \/ PoissonReturn

PoissonSpec == PoissonInit /\ [][PoissonNext]_vars

\* poisson() has a step to take: the seed at the start, and in the loop the
\* return when the loop condition fails and an iteration when it holds.
PoissonRunning == p_pc \in {"start", "loop"}

\* A step of poisson() seen from outside: under PoissonSpec the steps that
\* change its position, its points or its active list are the PoissonNext
\* steps.
PoissonStep == p_pc' # p_pc \/ p_points' # p_points \/ p_active' # p_active

\* poisson() is one sequential function: as long as it has a step to take,
\* the thread running it takes one.  This is weak fairness of PoissonNext
\* with the condition under which it is enabled written out.
PoissonFairSpec == PoissonSpec /\ ([]<>(~PoissonRunning) \/ []<><<PoissonStep>>_vars)

\* ------------------------------------------------------------------------
\* poisson() as a function of what it draws
\*
\* st holds points, active and grid, and panic once a candidate's
\* constructor has panicked.  Iteration i of the loop draws active_idx,
\* sampled at 0, and candidates, sampled at the one of offset
\* offsets[i mod Len(offsets)]: it is accepted, or it is the candidate all
\* K = 30 draws give and the active entry is removed.  SNFloat::random
\* gives `random` every time it is drawn.

\* count.into_inner().max(4)
MinPoissonCount == 4

poisson_place(st, new_p) ==
    [st EXCEPT !.grid = [@ EXCEPT ![p_to_grid(new_p)] = Len(st.points)],
               !.active = Append(@, Len(st.points)),
               !.points = Append(@, new_p)]

poisson_iteration(st, active_idx, made) ==
    IF made.panic THEN [st EXCEPT !.panic = TRUE]
    ELSE IF Rejected(st.points, st.grid, made.v)
    THEN [st EXCEPT !.active = RemoveAt(@, active_idx)]
    ELSE poisson_place(st, made.v)

\* normaliser.normalise(value) with the draw `random` where the code draws.
DrawnCoordinate(made, random) == IF random \in DOMAIN made THEN made[random] ELSE made[0]

\* The candidate at offset d of p when SNFloat::random gives `random`.
DrawnCandidate(normalise, p, d, random) ==
    CandidateOf(DrawnCoordinate(normalise[F32Add(p[1], LatticeF32[d[1]])], random),
                DrawnCoordinate(normalise[F32Add(p[2], LatticeF32[d[2]])], random))

\* while points.len() < count && !active.is_empty()
RECURSIVE poisson_loop(_, _, _, _, _, _)
poisson_loop(count, normalise, st, offsets, random, i) ==
    IF st.panic \/ ~(Len(st.points) < count /\ st.active # <<>>)
    THEN [panic |-> st.panic, points |-> st.points]
    ELSE poisson_loop(count, normalise,
                      poisson_iteration(st, 0,
                                        DrawnCandidate(normalise, st.points[st.active[1] + 1],
                                                       offsets[(i % Len(offsets)) + 1], random)),
                      offsets, random, i + 1)

\* normaliser.normalise(p.x + dx) wherever poisson() can compute it when
\* called with the count MinPoissonCount.
GeneratorNormalised ==
    [self \in SFloatNormalisers |->
        NormaliseRounds(self, <<>>, SeedCoordinates, MinPoissonCount - 1)]

\* poisson(rng, count, radius, normaliser) called with the radius `radius`:
\* the assertions on the arguments, the seed point and the loop.
poisson(count, normaliser, p0, offsets, random) ==
    IF ~F32Lt(F32Zero, radius) \/ ~(count > 0) \/ SNPoint_new_f32(p0[1], p0[2]).panic
    THEN [panic |-> TRUE, points |-> <<>>]
    ELSE poisson_loop(count, GeneratorNormalised[normaliser],
                      [panic |-> FALSE, points |-> <<p0>>, active |-> <<0>>,
                       grid |-> [[c \in GridCellIndices |-> None] EXCEPT ![p_to_grid(p0)] = 0]],
                      offsets, random, 0)

\* ------------------------------------------------------------------------
\* generate_point_set (point_sets.rs)

\* 0.01 as an f32
F32Hundredth == F32(FALSE, FALSE, 5368709, -29)

\* The arguments generate_point_set passes to poisson(): count.max(4) and
\* (2.0 * radius / (count as f32).sqrt().max(2.0)).max(0.01)
PoissonArgs(self) ==
    [count |-> Max(self.count, MinPoissonCount),
     radius |-> F32MaxOf(F32Div(F32Mul(F32Two, self.radius),
                                F32MaxOf(F32Sqrt(F32OfInt(self.count)), F32Two)),
                         F32Hundredth)]

\* What poisson() returns to generate_point_set, or its panic, as a Vec of
\* constructor results; drawn holds the normaliser generate_rng gives and
\* what poisson() draws.
PoissonVec(made) ==
    IF made.panic THEN <<Panic>> ELSE [i \in 1 .. Len(made.points) |-> Ok(made.points[i])]

PoissonPoints(self, drawn) ==
    PoissonVec(poisson(PoissonArgs(self).count, drawn.normaliser, drawn.p0, drawn.offsets,
                       drawn.random))

\* The match of generate_point_set.
GeneratedPoints(self, rng, drawn) ==
    CASE self.variant = "Origin" -> origin
      [] self.variant = "Moore" -> moore
      [] self.variant = "VonNeumann" -> von_neumann
      [] self.variant = "UniformGrid" -> UniformGridPoints(self)
      [] self.variant = "SparseGrid" -> SparseGridPoints(self)
      [] self.variant = "TriGrid" -> TriGridPoints(self)
      [] self.variant = "HexGrid" -> HexGridPoints(self)
      [] self.variant = "UniformDistribution" -> uniform(rng, Max(self.count, 2))
      [] self.variant = "Poisson" -> PoissonPoints(self, drawn)
      [] self.variant = "Spiral" -> SpiralPoints(self)
      [] self.variant \in RingVariants -> RingPoints(RingSequence(self, rng), 0)

PointSet_new(points, generator) ==
    IF Len(points) > 0 /\ Len(points) <= 256
    THEN [panic |-> FALSE, points |-> points, generator |-> generator]
    ELSE [panic |-> TRUE, points |-> <<>>, generator |-> generator]

\* assert!(points.len() > 0) and PointSet::new(Arc::new(points), self)
PointSetOfPoints(collected, self) ==
    IF collected.panic \/ ~(Len(collected.points) > 0)
    THEN [panic |-> TRUE, points |-> <<>>, generator |-> self]
    ELSE PointSet_new(collected.points, self)

\* generate_point_set: the points of the variant, the assertion that there
\* is at least one, and PointSet::new.
generate_point_set(self, rng, drawn) ==
    PointSetOfPoints(Collect(GeneratedPoints(self, rng, drawn)), self)

\* The descriptors, by variant.
FixedGenerators == {[variant |-> v] : v \in {"Origin", "Moore", "VonNeumann"}}

GridGenerators ==
    [variant : {"UniformGrid", "TriGrid", "HexGrid"}, x_count : Nibbles, y_count : Nibbles]

SparseGenerators ==
    [variant : {"SparseGrid"}, x_count : Nibbles, y_count : Nibbles,
     x_mod : BOOLEAN, y_mod : BOOLEAN]

CountGenerators == [variant : {"UniformDistribution"}, count : Bytes]

\* The descriptors whose argument radius is the one poisson() is modelled
\* with: those of the UNFloat radius itself and a count up to 4.
PoissonGenerators ==
    {self \in [variant : {"Poisson"}, count : Bytes, radius : {radius}] :
        PoissonArgs(self).radius = radius}

\* scalar and nonlinearity_factor_halved are UNFloats, maximum is an Angle.
SpiralGenerators ==
    [variant : {"Spiral"}, count : Bytes, scalar : {Half, One}, maximum : {-PI, QuarterTurn},
     linear : BOOLEAN, nonlinearity_factor_halved : {0, Half, One}]

RandomRingsGenerators == [variant : {"RandomRings"}, max_rings : Nibbles]

LinearGenerators ==
    [variant : {"LinearIncreasingRings"}, max_count : Bytes, ring_size_delta : Nibbles]

BudgetGenerators == [variant : {"FibonacciRings", "SquaredRings"}, max_count : Bytes]

GenIdle == call.fn = "none"

\* Generators that draw nothing from the rng.
GenerateDeterministic ==
    \E self \in FixedGenerators \cup GridGenerators \cup SparseGenerators \cup SpiralGenerators :
        /\ GenIdle
        /\ call' = [fn |-> "generate_point_set", self |-> self, seed |-> 0]
        /\ UNCHANGED machineVars
        /\ ret' = generate_point_set(self, [seed |-> 0], 0)

GenerateRandom ==
    \E self \in CountGenerators \cup RandomRingsGenerators, rng \in Rngs :
        /\ GenIdle
        /\ call' = [fn |-> "generate_point_set", self |-> self, seed |-> rng.seed]
        /\ UNCHANGED machineVars
        /\ ret' = generate_point_set(self, rng, 0)

\* What the Poisson arm draws: the normaliser, the seed point, the offsets
\* of the candidates, a sequence the iterations go through again and again,
\* and what SNFloat::random gives, which only the Random normaliser draws.
GeneratorOffsets == {d \in CandidateOffsets : d[1] = -(Half - 1)}

PoissonDrawn ==
    {drawn \in [normaliser : SFloatNormalisers, p0 : SeedPoints,
                offsets : UNION {[1 .. n -> GeneratorOffsets] : n \in 1 .. 2},
                random : RandomDraws] :
        drawn.normaliser # "Random" => drawn.random = One}

GeneratePoisson ==
    \E self \in PoissonGenerators, drawn \in PoissonDrawn :
        /\ GenIdle
        /\ call' = [fn |-> "generate_point_set", self |-> self, seed |-> 0]
        /\ UNCHANGED machineVars
        /\ ret' = generate_point_set(self, [seed |-> 0], drawn)

GenerateRings ==
    \E self \in LinearGenerators \cup BudgetGenerators :
        /\ GenIdle
        /\ call' = [fn |-> "generate_point_set", self |-> self, seed |-> 0]
        /\ UNCHANGED machineVars
        /\ ret' = generate_point_set(self, [seed |-> 0], 0)

\* ------------------------------------------------------------------------
\* The normalisers as calls

\* f32::MAX and the smallest positive f32, a subnormal.
F32_MAX == F32(FALSE, FALSE, 2 ^ F32Bits - 1, F32MaxExp - F32Bits)

F32_MIN_SUBNORMAL == F32(FALSE, FALSE, 1, F32MinExp)

\* The f32 inputs sampled: the values v / One up to NormalMax (in units of
\* 1.0) either side, both zeros, a subnormal, both infinities, NaN, f32::MAX
\* either side, and the values either side whose products and quotients by
\* PI are reduced by the sine over the whole of 2/pi.
NormalMax == 3

LargeInputs == {F32OfInt(1000), F32(FALSE, FALSE, 1, 30), F32(FALSE, FALSE, 1, 100), F32_MAX}

F32Inputs ==
    {F32OfRatio(v, One) : v \in (-(NormalMax * One)) .. (NormalMax * One)}
        \cup LargeInputs \cup {F32Neg(x) : x \in LargeInputs}
        \cup {F32(TRUE, FALSE, 0, 0), F32_MIN_SUBNORMAL, F32Inf(FALSE), F32Inf(TRUE), F32NaN}

CallSFloatNormalise ==
    \E self \in SFloatNormalisers, value \in F32Inputs :
      \E rnd \in CoordinateDraws(self, value) :
        /\ Idle
        /\ call' = [fn |-> "SFloatNormaliser::normalise", self |-> self, value |-> value]
        /\ UNCHANGED machineVars
        /\ ret' = SFloatNormaliser_normalise_f32(self, value, LatticeF32[rnd])

CallUNFloatNewClamped ==
    \E value \in F32Inputs, negative_zero_max \in BOOLEAN :
        /\ Idle
        /\ call' = [fn |-> "UNFloat::new_clamped", value |-> value,
                    negative_zero_max |-> negative_zero_max]
        /\ UNCHANGED machineVars
        /\ ret' = UNFloat_new_clamped_f32(value, negative_zero_max)

\* The values UNFloat::random, rng.gen_range(0.0..=1.0), is sampled at: the
\* two ends of the range.
UnsignedRandomDraws == {0, One}

CallUFloatNormalise ==
    \E self \in UFloatNormalisers, value \in F32Inputs, negative_zero_max \in BOOLEAN :
      \E rnd \in (IF self = "Random" THEN UnsignedRandomDraws ELSE {0}) :
        /\ Idle
        /\ call' = [fn |-> "UFloatNormaliser::normalise", self |-> self, value |-> value,
                    negative_zero_max |-> negative_zero_max]
        /\ UNCHANGED machineVars
        /\ ret' = UFloatNormaliser_normalise_f32(self, value, LatticeF32[rnd],
                                                 negative_zero_max)

\* ------------------------------------------------------------------------
\* The specification of the pure functions

Init ==
    /\ call = [fn |-> "none"]
    /\ ret = Ok(0)
    /\ PoissonIdle
    /\ PreloaderIdle

Next ==
    \/ CallAngleNew
    \/ CallAngleAdd
    \/ CallAngleSub
    \/ CallAngleLerp
    \/ CallUNFloatNew
    \/ CallSNFloatNew
    \/ CallSNPointNew
    \/ CallSNComplexNew
    \/ CallUNFloatWrap
    \/ CallSNFloatWrap
    \/ CallSFloatNormalise
    \/ CallUFloatNormalise
    \/ CallUNFloatNewClamped

Spec == Init /\ [][Next]_vars

\* The specification of the point set generators.
GenNext ==
    \/ GenerateDeterministic
    \/ GenerateRandom
    \/ GeneratePoisson
    \/ GenerateRings

GenSpec == Init /\ [][GenNext]_vars

\* ------------------------------------------------------------------------
\* Nibble, Byte, UInt and SInt (discrete.rs)

U8Max == 255

I32Max == 2147483647

I32Min == -I32Max - 1

\* u8 addition and multiplication: a result beyond u8::MAX is a panic in a
\* build with overflow checks (the debug profile) and wraps modulo 256 in a
\* build without (the release profile).
u8_add(a, b, overflow_checks) ==
    IF a + b > U8Max
    THEN (IF overflow_checks THEN Panic ELSE Ok((a + b) % (U8Max + 1)))
    ELSE Ok(a + b)

u8_mul(a, b, overflow_checks) ==
    IF a * b > U8Max
    THEN (IF overflow_checks THEN Panic ELSE Ok((a * b) % (U8Max + 1)))
    ELSE Ok(a * b)

\* The / and % of the unsigned primitive types and of Wrapping over them:
\* a zero divisor is a panic.
unsigned_div(a, b) == IF b = 0 THEN Panic ELSE Ok(a \div b)

unsigned_rem(a, b) == IF b = 0 THEN Panic ELSE Ok(a % b)

\* Division of i32 truncated towards zero, for b # 0 and no overflow.
TruncDiv(a, b) ==
    IF b > 0
    THEN (IF a < 0 /\ a % b # 0 THEN (a \div b) + 1 ELSE a \div b)
    ELSE IF b = I32Min THEN (IF a = I32Min THEN 1 ELSE 0)
    ELSE -(IF a < 0 /\ a % (-b) # 0 THEN (a \div (-b)) + 1 ELSE a \div (-b))

\* Wrapping<i32> / Wrapping<i32> is i32::wrapping_div: i32::MIN / -1 wraps
\* to i32::MIN; a zero divisor is a panic.
wrapping_div_i32(a, b) ==
    IF b = 0 THEN Panic
    ELSE IF a = I32Min /\ b = -1 THEN Ok(I32Min)
    ELSE Ok(TruncDiv(a, b))

\* Wrapping<i32> % Wrapping<i32> is i32::wrapping_rem: the remainder has the
\* sign of the dividend, i32::MIN % -1 is 0; a zero divisor is a panic.
wrapping_rem_i32(a, b) ==
    IF b = 0 THEN Panic
    ELSE IF b = -1 \/ b = I32Min THEN Ok(IF b = I32Min /\ a # I32Min THEN a ELSE 0)
    ELSE Ok(a - TruncDiv(a, b) * b)

\* Nibble::new: the assertion value < MODULUS.
Nibble_new(value) == IF value < Nibble_MODULUS THEN Ok(value) ELSE Panic

\* new_circular without the reduction.
Nibble_new_circular_NoMod(value) == Ok(value)

\* Nibble::new_circular.
Nibble_new_circular(value) == Ok(value % Nibble_MODULUS)

Nibble_circular_add(self, other, overflow_checks) ==
    LET sum == u8_add(self, other, overflow_checks)
    IN  IF sum.panic THEN Panic ELSE Nibble_new_circular(sum.v)

\* Nibble::divide with the zero test left out.
Nibble_divide_NoZeroTest(self, other) == unsigned_div(self, other)

Nibble_divide(self, other) ==
    IF other = 0 THEN Ok(other) ELSE unsigned_div(self, other)

Nibble_circular_multiply(self, other, overflow_checks) ==
    LET product == u8_mul(self, other, overflow_checks)
    IN  IF product.panic THEN Panic ELSE Nibble_new_circular(product.v)

Nibble_modulus(self, other) ==
    IF other = 0 THEN Ok(other)
    ELSE LET rem == unsigned_rem(self, other)
         IN  IF rem.panic THEN Panic ELSE Nibble_new_circular(rem.v)

\* u8::saturating_add(1) and u8::saturating_sub(1).
saturating_add_1(v) == Min(v + 1, U8Max)

saturating_sub_1(v) == Max(v - 1, 0)

\* Nibble::mutate_rng: branch is rng.gen_range(0..3), drawn the value
\* Nibble::random gives in branch 2.
Nibble_mutate_rng(self, branch, drawn) ==
    CASE branch = 0 -> Nibble_new(saturating_add_1(self) % 16)
      [] branch = 1 -> Nibble_new(saturating_sub_1(self) % 16)
      [] branch = 2 -> Ok(drawn)

Byte_divide(self, other) ==
    IF other = 0 THEN Ok(other) ELSE unsigned_div(self, other)

Byte_modulus(self, other) ==
    IF other = 0 THEN Ok(other) ELSE unsigned_rem(self, other)

UInt_divide(self, other) ==
    IF other = 0 THEN Ok(other) ELSE unsigned_div(self, other)

UInt_modulus(self, other) ==
    IF other = 0 THEN Ok(other) ELSE unsigned_rem(self, other)

SInt_divide(self, other) ==
    IF other = 0 THEN Ok(other) ELSE wrapping_div_i32(self, other)

SInt_modulus(self, other) ==
    IF other = 0 THEN Ok(other) ELSE wrapping_rem_i32(self, other)

\* Operands: every Nibble, and for the wider types the values around the
\* ends of the range and a few in between. A u32 above i32::MAX is not
\* drawn: division and remainder of unsigned values do not depend on the
\* width.
ByteOperands == {0, 1, 2, 3, 7, 16, 127, 128, 254, 255}

UIntOperands == {0, 1, 2, 3, 7, 255, 256, 65535, I32Max - 1, I32Max}

SIntOperands == {I32Min, I32Min + 1, -65536, -7, -2, -1, 0, 1, 2, 7, 65535, I32Max - 1, I32Max}

CallNibbleDivide ==
    /\ Idle
    /\ \E self \in Nibbles, other \in Nibbles :
        \/ /\ call' = [fn |-> "Nibble::divide", self |-> self, other |-> other]
           /\ UNCHANGED machineVars
           /\ ret' = Nibble_divide(self, other)
        \/ /\ call' = [fn |-> "Nibble::modulus", self |-> self, other |-> other]
           /\ UNCHANGED machineVars
           /\ ret' = Nibble_modulus(self, other)

CallByteDivide ==
    /\ Idle
    /\ \E self \in ByteOperands, other \in ByteOperands :
        \/ /\ call' = [fn |-> "Byte::divide", self |-> self, other |-> other]
           /\ UNCHANGED machineVars
           /\ ret' = Byte_divide(self, other)
        \/ /\ call' = [fn |-> "Byte::modulus", self |-> self, other |-> other]
           /\ UNCHANGED machineVars
           /\ ret' = Byte_modulus(self, other)

CallUIntDivide ==
    /\ Idle
    /\ \E self \in UIntOperands, other \in UIntOperands :
        \/ /\ call' = [fn |-> "UInt::divide", self |-> self, other |-> other]
           /\ UNCHANGED machineVars
           /\ ret' = UInt_divide(self, other)
        \/ /\ call' = [fn |-> "UInt::modulus", self |-> self, other |-> other]
           /\ UNCHANGED machineVars
           /\ ret' = UInt_modulus(self, other)

CallSIntDivide ==
    /\ Idle
    /\ \E self \in SIntOperands, other \in SIntOperands :
        \/ /\ call' = [fn |-> "SInt::divide", self |-> self, other |-> other]
           /\ UNCHANGED machineVars
           /\ ret' = SInt_divide(self, other)
        \/ /\ call' = [fn |-> "SInt::modulus", self |-> self, other |-> other]
           /\ UNCHANGED machineVars
           /\ ret' = SInt_modulus(self, other)

DivideNext ==
    \/ CallNibbleDivide
    \/ CallByteDivide
    \/ CallUIntDivide
    \/ CallSIntDivide

\* The specification of divide and modulus.
DivideSpec == Init /\ [][DivideNext]_vars

\* A Nibble under a sequence of operations: ret holds the Nibble (or the
\* panic that ended the run), call the operation that produced it.
NibbleInit ==
    /\ call = [fn |-> "none"]
    /\ ret \in {Ok(v) : v \in Nibbles}
    /\ PoissonIdle
    /\ PreloaderIdle

NibbleCircularAdd ==
    /\ ~ret.panic
    /\ \E other \in Nibbles, overflow_checks \in BOOLEAN :
        /\ call' = [fn |-> "Nibble::circular_add", self |-> ret.v, other |-> other,
                    overflow_checks |-> overflow_checks]
        /\ ret' = Nibble_circular_add(ret.v, other, overflow_checks)
    /\ UNCHANGED machineVars

NibbleCircularMultiply ==
    /\ ~ret.panic
    /\ \E other \in Nibbles, overflow_checks \in BOOLEAN :
        /\ call' = [fn |-> "Nibble::circular_multiply", self |-> ret.v, other |-> other,
                    overflow_checks |-> overflow_checks]
        /\ ret' = Nibble_circular_multiply(ret.v, other, overflow_checks)
    /\ UNCHANGED machineVars

NibbleDivide ==
    /\ ~ret.panic
    /\ \E other \in Nibbles :
        /\ call' = [fn |-> "Nibble::divide", self |-> ret.v, other |-> other]
        /\ ret' = Nibble_divide(ret.v, other)
    /\ UNCHANGED machineVars

NibbleModulus ==
    /\ ~ret.panic
    /\ \E other \in Nibbles :
        /\ call' = [fn |-> "Nibble::modulus", self |-> ret.v, other |-> other]
        /\ ret' = Nibble_modulus(ret.v, other)
    /\ UNCHANGED machineVars

NibbleMutate ==
    /\ ~ret.panic
    /\ \E branch \in 0 .. 2, drawn \in Nibbles :
        /\ branch # 2 => drawn = 0
        /\ call' = [fn |-> "Nibble::mutate_rng", self |-> ret.v, other |-> branch]
        /\ ret' = Nibble_mutate_rng(ret.v, branch, drawn)
    /\ UNCHANGED machineVars

NibbleNext ==
    \/ NibbleCircularAdd
    \/ NibbleCircularMultiply
    \/ NibbleDivide
    \/ NibbleModulus
    \/ NibbleMutate

NibbleSpec == NibbleInit /\ [][NibbleNext]_vars

\* ------------------------------------------------------------------------
\* Text form of SNPoint and SNComplex (points.rs, complex.rs)
\*
\* A text is a sequence of characters, each a string: an ASCII character is
\* itself ("\t", "\n", "\r" and "\f" for the controls that have an escape),
\* any other character is written by its code point, "U+0663". A parsed
\* number is an f32: a sign and m * 2^e with m odd (m = 0 and e = 0 for a
\* zero), or an infinity.

Digits == <<"0", "1", "2", "3", "4", "5", "6", "7", "8", "9">>

\* The ASCII digits, the only ones f32::from_str reads.
IsAsciiDigit(c) == \E d \in 1 .. 10 : Digits[d] = c

DigitValue(c) == (CHOOSE d \in 1 .. 10 : Digits[d] = c) - 1

\* The decimal digits (general category Nd, Unicode 16) outside ASCII.
UnicodeDigits ==
    {
      "U+0660", "U+0661", "U+0662", "U+0663", "U+0664", "U+0665", "U+0666", "U+0667", "U+0668", "U+0669",
      "U+06F0", "U+06F1", "U+06F2", "U+06F3", "U+06F4", "U+06F5", "U+06F6", "U+06F7", "U+06F8", "U+06F9",
      "U+07C0", "U+07C1", "U+07C2", "U+07C3", "U+07C4", "U+07C5", "U+07C6", "U+07C7", "U+07C8", "U+07C9",
      "U+0966", "U+0967", "U+0968", "U+0969", "U+096A", "U+096B", "U+096C", "U+096D", "U+096E", "U+096F",
      "U+09E6", "U+09E7", "U+09E8", "U+09E9", "U+09EA", "U+09EB", "U+09EC", "U+09ED", "U+09EE", "U+09EF",
      "U+0A66", "U+0A67", "U+0A68", "U+0A69", "U+0A6A", "U+0A6B", "U+0A6C", "U+0A6D", "U+0A6E", "U+0A6F",
      "U+0AE6", "U+0AE7", "U+0AE8", "U+0AE9", "U+0AEA", "U+0AEB", "U+0AEC", "U+0AED", "U+0AEE", "U+0AEF",
      "U+0B66", "U+0B67", "U+0B68", "U+0B69", "U+0B6A", "U+0B6B", "U+0B6C", "U+0B6D", "U+0B6E", "U+0B6F",
      "U+0BE6", "U+0BE7", "U+0BE8", "U+0BE9", "U+0BEA", "U+0BEB", "U+0BEC", "U+0BED", "U+0BEE", "U+0BEF",
      "U+0C66", "U+0C67", "U+0C68", "U+0C69", "U+0C6A", "U+0C6B", "U+0C6C", "U+0C6D", "U+0C6E", "U+0C6F",
      "U+0CE6", "U+0CE7", "U+0CE8", "U+0CE9", "U+0CEA", "U+0CEB", "U+0CEC", "U+0CED", "U+0CEE", "U+0CEF",
      "U+0D66", "U+0D67", "U+0D68", "U+0D69", "U+0D6A", "U+0D6B", "U+0D6C", "U+0D6D", "U+0D6E", "U+0D6F",
      "U+0DE6", "U+0DE7", "U+0DE8", "U+0DE9", "U+0DEA", "U+0DEB", "U+0DEC", "U+0DED", "U+0DEE", "U+0DEF",
      "U+0E50", "U+0E51", "U+0E52", "U+0E53", "U+0E54", "U+0E55", "U+0E56", "U+0E57", "U+0E58", "U+0E59",
      "U+0ED0", "U+0ED1", "U+0ED2", "U+0ED3", "U+0ED4", "U+0ED5", "U+0ED6", "U+0ED7", "U+0ED8", "U+0ED9",
      "U+0F20", "U+0F21", "U+0F22", "U+0F23", "U+0F24", "U+0F25", "U+0F26", "U+0F27", "U+0F28", "U+0F29",
      "U+1040", "U+1041", "U+1042", "U+1043", "U+1044", "U+1045", "U+1046", "U+1047", "U+1048", "U+1049",
      "U+1090", "U+1091", "U+1092", "U+1093", "U+1094", "U+1095", "U+1096", "U+1097", "U+1098", "U+1099",
      "U+17E0", "U+17E1", "U+17E2", "U+17E3", "U+17E4", "U+17E5", "U+17E6", "U+17E7", "U+17E8", "U+17E9",
      "U+1810", "U+1811", "U+1812", "U+1813", "U+1814", "U+1815", "U+1816", "U+1817", "U+1818", "U+1819",
      "U+1946", "U+1947", "U+1948", "U+1949", "U+194A", "U+194B", "U+194C", "U+194D", "U+194E", "U+194F",
      "U+19D0", "U+19D1", "U+19D2", "U+19D3", "U+19D4", "U+19D5", "U+19D6", "U+19D7", "U+19D8", "U+19D9",
      "U+1A80", "U+1A81", "U+1A82", "U+1A83", "U+1A84", "U+1A85", "U+1A86", "U+1A87", "U+1A88", "U+1A89",
      "U+1A90", "U+1A91", "U+1A92", "U+1A93", "U+1A94", "U+1A95", "U+1A96", "U+1A97", "U+1A98", "U+1A99",
      "U+1B50", "U+1B51", "U+1B52", "U+1B53", "U+1B54", "U+1B55", "U+1B56", "U+1B57", "U+1B58", "U+1B59",
      "U+1BB0", "U+1BB1", "U+1BB2", "U+1BB3", "U+1BB4", "U+1BB5", "U+1BB6", "U+1BB7", "U+1BB8", "U+1BB9",
      "U+1C40", "U+1C41", "U+1C42", "U+1C43", "U+1C44", "U+1C45", "U+1C46", "U+1C47", "U+1C48", "U+1C49",
      "U+1C50", "U+1C51", "U+1C52", "U+1C53", "U+1C54", "U+1C55", "U+1C56", "U+1C57", "U+1C58", "U+1C59",
      "U+A620", "U+A621", "U+A622", "U+A623", "U+A624", "U+A625", "U+A626", "U+A627", "U+A628", "U+A629",
      "U+A8D0", "U+A8D1", "U+A8D2", "U+A8D3", "U+A8D4", "U+A8D5", "U+A8D6", "U+A8D7", "U+A8D8", "U+A8D9",
      "U+A900", "U+A901", "U+A902", "U+A903", "U+A904", "U+A905", "U+A906", "U+A907", "U+A908", "U+A909",
      "U+A9D0", "U+A9D1", "U+A9D2", "U+A9D3", "U+A9D4", "U+A9D5", "U+A9D6", "U+A9D7", "U+A9D8", "U+A9D9",
      "U+A9F0", "U+A9F1", "U+A9F2", "U+A9F3", "U+A9F4", "U+A9F5", "U+A9F6", "U+A9F7", "U+A9F8", "U+A9F9",
      "U+AA50", "U+AA51", "U+AA52", "U+AA53", "U+AA54", "U+AA55", "U+AA56", "U+AA57", "U+AA58", "U+AA59",
      "U+ABF0", "U+ABF1", "U+ABF2", "U+ABF3", "U+ABF4", "U+ABF5", "U+ABF6", "U+ABF7", "U+ABF8", "U+ABF9",
      "U+FF10", "U+FF11", "U+FF12", "U+FF13", "U+FF14", "U+FF15", "U+FF16", "U+FF17", "U+FF18", "U+FF19",
      "U+104A0", "U+104A1", "U+104A2", "U+104A3", "U+104A4", "U+104A5", "U+104A6", "U+104A7", "U+104A8", "U+104A9",
      "U+10D30", "U+10D31", "U+10D32", "U+10D33", "U+10D34", "U+10D35", "U+10D36", "U+10D37", "U+10D38", "U+10D39",
      "U+10D40", "U+10D41", "U+10D42", "U+10D43", "U+10D44", "U+10D45", "U+10D46", "U+10D47", "U+10D48", "U+10D49",
      "U+11066", "U+11067", "U+11068", "U+11069", "U+1106A", "U+1106B", "U+1106C", "U+1106D", "U+1106E", "U+1106F",
      "U+110F0", "U+110F1", "U+110F2", "U+110F3", "U+110F4", "U+110F5", "U+110F6", "U+110F7", "U+110F8", "U+110F9",
      "U+11136", "U+11137", "U+11138", "U+11139", "U+1113A", "U+1113B", "U+1113C", "U+1113D", "U+1113E", "U+1113F",
      "U+111D0", "U+111D1", "U+111D2", "U+111D3", "U+111D4", "U+111D5", "U+111D6", "U+111D7", "U+111D8", "U+111D9",
      "U+112F0", "U+112F1", "U+112F2", "U+112F3", "U+112F4", "U+112F5", "U+112F6", "U+112F7", "U+112F8", "U+112F9",
      "U+11450", "U+11451", "U+11452", "U+11453", "U+11454", "U+11455", "U+11456", "U+11457", "U+11458", "U+11459",
      "U+114D0", "U+114D1", "U+114D2", "U+114D3", "U+114D4", "U+114D5", "U+114D6", "U+114D7", "U+114D8", "U+114D9",
      "U+11650", "U+11651", "U+11652", "U+11653", "U+11654", "U+11655", "U+11656", "U+11657", "U+11658", "U+11659",
      "U+116C0", "U+116C1", "U+116C2", "U+116C3", "U+116C4", "U+116C5", "U+116C6", "U+116C7", "U+116C8", "U+116C9",
      "U+116D0", "U+116D1", "U+116D2", "U+116D3", "U+116D4", "U+116D5", "U+116D6", "U+116D7", "U+116D8", "U+116D9",
      "U+116DA", "U+116DB", "U+116DC", "U+116DD", "U+116DE", "U+116DF", "U+116E0", "U+116E1", "U+116E2", "U+116E3",
      "U+11730", "U+11731", "U+11732", "U+11733", "U+11734", "U+11735", "U+11736", "U+11737", "U+11738", "U+11739",
      "U+118E0", "U+118E1", "U+118E2", "U+118E3", "U+118E4", "U+118E5", "U+118E6", "U+118E7", "U+118E8", "U+118E9",
      "U+11950", "U+11951", "U+11952", "U+11953", "U+11954", "U+11955", "U+11956", "U+11957", "U+11958", "U+11959",
      "U+11BF0", "U+11BF1", "U+11BF2", "U+11BF3", "U+11BF4", "U+11BF5", "U+11BF6", "U+11BF7", "U+11BF8", "U+11BF9",
      "U+11C50", "U+11C51", "U+11C52", "U+11C53", "U+11C54", "U+11C55", "U+11C56", "U+11C57", "U+11C58", "U+11C59",
      "U+11D50", "U+11D51", "U+11D52", "U+11D53", "U+11D54", "U+11D55", "U+11D56", "U+11D57", "U+11D58", "U+11D59",
      "U+11DA0", "U+11DA1", "U+11DA2", "U+11DA3", "U+11DA4", "U+11DA5", "U+11DA6", "U+11DA7", "U+11DA8", "U+11DA9",
      "U+11F50", "U+11F51", "U+11F52", "U+11F53", "U+11F54", "U+11F55", "U+11F56", "U+11F57", "U+11F58", "U+11F59",
      "U+16130", "U+16131", "U+16132", "U+16133", "U+16134", "U+16135", "U+16136", "U+16137", "U+16138", "U+16139",
      "U+16A60", "U+16A61", "U+16A62", "U+16A63", "U+16A64", "U+16A65", "U+16A66", "U+16A67", "U+16A68", "U+16A69",
      "U+16AC0", "U+16AC1", "U+16AC2", "U+16AC3", "U+16AC4", "U+16AC5", "U+16AC6", "U+16AC7", "U+16AC8", "U+16AC9",
      "U+16B50", "U+16B51", "U+16B52", "U+16B53", "U+16B54", "U+16B55", "U+16B56", "U+16B57", "U+16B58", "U+16B59",
      "U+16D70", "U+16D71", "U+16D72", "U+16D73", "U+16D74", "U+16D75", "U+16D76", "U+16D77", "U+16D78", "U+16D79",
      "U+1CCF0", "U+1CCF1", "U+1CCF2", "U+1CCF3", "U+1CCF4", "U+1CCF5", "U+1CCF6", "U+1CCF7", "U+1CCF8", "U+1CCF9",
      "U+1D7CE", "U+1D7CF", "U+1D7D0", "U+1D7D1", "U+1D7D2", "U+1D7D3", "U+1D7D4", "U+1D7D5", "U+1D7D6", "U+1D7D7",
      "U+1D7D8", "U+1D7D9", "U+1D7DA", "U+1D7DB", "U+1D7DC", "U+1D7DD", "U+1D7DE", "U+1D7DF", "U+1D7E0", "U+1D7E1",
      "U+1D7E2", "U+1D7E3", "U+1D7E4", "U+1D7E5", "U+1D7E6", "U+1D7E7", "U+1D7E8", "U+1D7E9", "U+1D7EA", "U+1D7EB",
      "U+1D7EC", "U+1D7ED", "U+1D7EE", "U+1D7EF", "U+1D7F0", "U+1D7F1", "U+1D7F2", "U+1D7F3", "U+1D7F4", "U+1D7F5",
      "U+1D7F6", "U+1D7F7", "U+1D7F8", "U+1D7F9", "U+1D7FA", "U+1D7FB", "U+1D7FC", "U+1D7FD", "U+1D7FE", "U+1D7FF",
      "U+1E140", "U+1E141", "U+1E142", "U+1E143", "U+1E144", "U+1E145", "U+1E146", "U+1E147", "U+1E148", "U+1E149",
      "U+1E2F0", "U+1E2F1", "U+1E2F2", "U+1E2F3", "U+1E2F4", "U+1E2F5", "U+1E2F6", "U+1E2F7", "U+1E2F8", "U+1E2F9",
      "U+1E4F0", "U+1E4F1", "U+1E4F2", "U+1E4F3", "U+1E4F4", "U+1E4F5", "U+1E4F6", "U+1E4F7", "U+1E4F8", "U+1E4F9",
      "U+1E5F1", "U+1E5F2", "U+1E5F3", "U+1E5F4", "U+1E5F5", "U+1E5F6", "U+1E5F7", "U+1E5F8", "U+1E5F9", "U+1E5FA",
      "U+1E950", "U+1E951", "U+1E952", "U+1E953", "U+1E954", "U+1E955", "U+1E956", "U+1E957", "U+1E958", "U+1E959",
      "U+1FBF0", "U+1FBF1", "U+1FBF2", "U+1FBF3", "U+1FBF4", "U+1FBF5", "U+1FBF6", "U+1FBF7", "U+1FBF8", "U+1FBF9" }

\* The class \d of the regex, which is Unicode-aware: every decimal digit.
IsDigit(c) == IsAsciiDigit(c) \/ c \in UnicodeDigits

\* The class \s of the regex: the characters with the property White_Space.
WhiteSpace ==
    { " ", "\t", "\n", "\r", "\f",
      "U+000B", "U+0085", "U+00A0", "U+1680", "U+2000", "U+2001", "U+2002", "U+2003", "U+2004", "U+2005", "U+2006", "U+2007", "U+2008", "U+2009", "U+200A", "U+2028", "U+2029", "U+202F", "U+205F", "U+3000" }

IsSpace(c) == c \in WhiteSpace

\* The class [\d\.] of the regex.
IsNumberChar(c) == IsDigit(c) \/ c = "."

\* Where a greedy \s* that starts at index i stops: the first index at or
\* after i whose character is no white space (Len(s) + 1 when there is
\* none).
RECURSIVE SpaceStop(_, _)
SpaceStop(s, i) ==
    IF i > Len(s) \/ ~IsSpace(s[i]) THEN i ELSE SpaceStop(s, i + 1)

\* Where a greedy [\d\.]+ that starts at index i stops.
RECURSIVE NumberStop(_, _)
NumberStop(s, i) ==
    IF i > Len(s) \/ ~IsNumberChar(s[i]) THEN i ELSE NumberStop(s, i + 1)

CharAt(s, i) == IF i >= 1 /\ i <= Len(s) THEN s[i] ELSE "end"

\* The regex \(\s*(-?[\d\.]+)\s*,\s*(-?[\d\.]+)\s*\) tried at index i. The
\* character classes that follow each other are disjoint, so the greedy
\* runs are the only way to match.
MatchAt(s, i) ==
    LET a == SpaceStop(s, i + 1)
        x0 == IF CharAt(s, a) = "-" THEN a + 1 ELSE a
        x1 == NumberStop(s, x0)
        b == SpaceStop(s, x1)
        c == SpaceStop(s, b + 1)
        y0 == IF CharAt(s, c) = "-" THEN c + 1 ELSE c
        y1 == NumberStop(s, y0)
        d == SpaceStop(s, y1)
    IN  IF /\ CharAt(s, i) = "("
           /\ x1 > x0
           /\ CharAt(s, b) = ","
           /\ y1 > y0
           /\ CharAt(s, d) = ")"
        THEN [ok |-> TRUE, x |-> SubSeq(s, a, x1 - 1), y |-> SubSeq(s, c, y1 - 1)]
        ELSE [ok |-> FALSE, x |-> <<>>, y |-> <<>>]

\* Regex::captures: the leftmost match anywhere in the text, or None.
captures(s) ==
    IF \E i \in 1 .. Len(s) : MatchAt(s, i).ok
    THEN MatchAt(s, CHOOSE i \in 1 .. Len(s) :
                        MatchAt(s, i).ok /\ \A j \in 1 .. (i - 1) : ~MatchAt(s, j).ok)
    ELSE [ok |-> FALSE, x |-> <<>>, y |-> <<>>]

\* The end of map_range: debug_assert!(to_min <= out && out <= to_max) and
\* the value returned.
map_range_out(out, to, debug_assertions) ==
    IF debug_assertions /\ ~(F32Le(to[1], out) /\ F32Le(out, to[2])) THEN Panic
    ELSE Ok(out)

\* map_range (util.rs): the three assertions, the formula operation by
\* operation in f32 and, in a build with debug assertions, the assertion
\* on the result.
map_range(value, from, to, debug_assertions) ==
    IF \/ ~F32Lt(from[1], from[2])
       \/ ~(F32Le(from[1], value) /\ F32Le(value, from[2]))
       \/ ~F32Lt(to[1], to[2])
    THEN Panic
    ELSE map_range_out(F32Add(F32Mul(F32Div(F32Sub(value, from[1]),
                                            F32Sub(from[2], from[1])),
                                     F32Sub(to[2], to[1])),
                              to[1]),
                       to, debug_assertions)

\* to_signed with the target range of to_unsigned.
UNFloat_to_signed_SameRange(self, debug_assertions) ==
    map_range(self, <<F32Zero, F32One>>, <<F32Zero, F32One>>, debug_assertions)

\* SNFloat::new_from_range(self.value, 0.0, 1.0)
UNFloat_to_signed(self, debug_assertions) ==
    map_range(self, <<F32Zero, F32One>>, <<F32MinusOne, F32One>>, debug_assertions)

\* UNFloat::new_from_range(self.value, -1.0, 1.0)
SNFloat_to_unsigned(self, debug_assertions) ==
    map_range(self, <<F32MinusOne, F32One>>, <<F32Zero, F32One>>, debug_assertions)

\* The digits of a run as numbers.
DigitInts(s) == [i \in 1 .. Len(s) |-> DigitValue(s[i])]

RECURSIVE StripZeros(_)
StripZeros(d) == IF d # <<>> /\ Head(d) = 0 THEN StripZeros(Tail(d)) ELSE d

AllZero(d) == \A i \in 1 .. Len(d) : d[i] = 0

\* Long numbers are computed in limbs of four decimal digits.
Limb == 10 ^ 4

LimbAt(d, j) ==
    LET at(i) == IF i >= 1 /\ i <= Len(d) THEN d[i] ELSE 0
    IN  1000 * at(4 * j - 3) + 100 * at(4 * j - 2) + 10 * at(4 * j - 1) + at(4 * j)

\* The limbs of the fraction 0.d, and of the integer d.
FracLimbs(d) == [j \in 1 .. ((Len(d) + 3) \div 4) |-> LimbAt(d, j)]

IntLimbs(d) ==
    LET n == (Len(d) + 3) \div 4
        padded == [i \in 1 .. (4 * n) |-> IF i > 4 * n - Len(d) THEN d[i - (4 * n - Len(d))] ELSE 0]
    IN  [j \in 1 .. n |-> LimbAt(padded, j)]

\* The number that at most three limbs denote.
RECURSIVE LimbsValue(_)
LimbsValue(l) ==
    IF l = <<>> THEN 0
    ELSE Limb * LimbsValue(SubSeq(l, 1, Len(l) - 1)) + l[Len(l)]

\* The fraction of limbs l times k: the integer part and the limbs of the
\* rest.
RECURSIVE MulLimbs(_, _)
MulLimbs(l, k) ==
    IF l = <<>> THEN [carry |-> 0, limbs |-> <<>>]
    ELSE LET rest == MulLimbs(Tail(l), k)
             t == Head(l) * k + rest.carry
         IN  [carry |-> t \div Limb, limbs |-> <<t % Limb>> \o rest.limbs]

\* The integer of limbs l, with rem to its left, divided by k.
RECURSIVE DivLimbs(_, _, _)
DivLimbs(l, k, rem) ==
    IF l = <<>> THEN [rem |-> rem, limbs |-> <<>>]
    ELSE LET t == rem * Limb + Head(l)
             rest == DivLimbs(Tail(l), k, t % k)
         IN  [rem |-> rest.rem, limbs |-> <<t \div k>> \o rest.limbs]

\* The integer of limbs l (no leading zero limb) as (m + t) * 2^e with
\* 0 <= t < 1 and m below 10^9: while it is 10^9 or more it is halved, 16
\* times at once from 10^16 on and 4 times below, which leaves m more than
\* 25 bits; sticky when a bit that is set is lost.
RECURSIVE ReduceInt(_, _, _)
ReduceInt(l, e, sticky) ==
    IF Len(l) < 3 \/ (Len(l) = 3 /\ l[1] < 10)
    THEN [m |-> LimbsValue(l), e |-> e, sticky |-> sticky]
    ELSE LET bits == IF Len(l) > 4 THEN 16 ELSE 4
             div == DivLimbs(l, 2 ^ bits, 0)
         IN  ReduceInt(StripZeros(div.limbs), e + bits, sticky \/ div.rem # 0)

\* m + the fraction of limbs f as (m' + t) * 2^e: more bits of the
\* fraction are taken, 16 at once while m has at most 8 bits and 4 above,
\* until m' has more than 24 bits, the fraction is used up, or the bits
\* are below those of the smallest f32.
RECURSIVE ExtendFrac(_, _, _)
ExtendFrac(m, e, f) ==
    IF m >= 2 ^ F32Bits \/ AllZero(f) \/ e <= F32MinExp - 3
    THEN [m |-> m, e |-> e, sticky |-> ~AllZero(f)]
    ELSE LET bits == IF m < 2 ^ 8 THEN 16 ELSE 4
             mul == MulLimbs(f, 2 ^ bits)
         IN  ExtendFrac((2 ^ bits) * m + mul.carry, e - bits, mul.limbs)

\* f32::from_str on a capture of the regex, "-"? followed by digits and
\* dots: ASCII digits with at most one dot and at least one digit parse, to
\* the f32 nearest to the decimal; anything else is a ParseFloatError.
f32_from_str(s) ==
    LET negative == Len(s) >= 1 /\ s[1] = "-"
        body == IF negative THEN SubSeq(s, 2, Len(s)) ELSE s
        dots == {i \in 1 .. Len(body) : body[i] = "."}
        dot == IF dots = {} THEN Len(body) + 1 ELSE CHOOSE i \in dots : TRUE
        int == SubSeq(body, 1, dot - 1)
        frac == SubSeq(body, dot + 1, Len(body))
        i == StripZeros(DigitInts(int))
        f == FracLimbs(DigitInts(frac))
        whole == ReduceInt(IntLimbs(i), 0, FALSE)
        parts == IF whole.e > 0
                 THEN [whole EXCEPT !.sticky = @ \/ ~AllZero(f)]
                 ELSE ExtendFrac(whole.m, 0, f)
    IN  IF \/ Cardinality(dots) > 1
           \/ Len(int) + Len(frac) = 0
           \/ \E k \in 1 .. Len(body) : body[k] # "." /\ ~IsAsciiDigit(body[k])
        THEN [ok |-> FALSE, v |-> F32Zero]
        ELSE IF Len(i) > 39
        THEN [ok |-> TRUE, v |-> F32(negative, TRUE, 0, 0)]
        ELSE [ok |-> TRUE, v |-> F32Round(negative, parts.m, parts.e, parts.sticky)]

\* The result of a visit_str: Err(E::custom(..)), or Ok of what the
\* constructor returned, or the constructor's panic.
DecodeError == [panic |-> FALSE, err |-> TRUE, v |-> <<F32Zero, F32Zero>>]

\* SNPointVisitor::visit_str.
SNPointVisitor_visit_str(v) ==
    LET caps == captures(v)
        x == f32_from_str(caps.x)
        y == f32_from_str(caps.y)
    IN  IF ~caps.ok THEN DecodeError
        ELSE IF ~x.ok THEN DecodeError
        ELSE IF ~y.ok THEN DecodeError
        ELSE IF OutOfRange(x.v, y.v) THEN DecodeError
        ELSE LET made == SNPoint_new_f32(x.v, y.v)
             IN  [panic |-> made.panic, err |-> FALSE, v |-> made.v]

\* SNComplexVisitor::visit_str.
SNComplexVisitor_visit_str(v) ==
    LET caps == captures(v)
        x == f32_from_str(caps.x)
        y == f32_from_str(caps.y)
    IN  IF ~caps.ok THEN DecodeError
        ELSE IF ~x.ok THEN DecodeError
        ELSE IF ~y.ok THEN DecodeError
        ELSE IF OutOfRange(x.v, y.v) THEN DecodeError
        ELSE LET made == SNComplex_new_f32(x.v, y.v)
             IN  [panic |-> made.panic, err |-> FALSE, v |-> made.v]

NumberText(chars, kind, neg, m, e) ==
    [chars |-> chars, kind |-> kind, value |-> F32(neg, FALSE, m, e)]

\* A one followed by n zeros.
RECURSIVE OneAndZeros(_)
OneAndZeros(n) == IF n = 0 THEN <<"1">> ELSE OneAndZeros(n - 1) \o <<"0">>

\* The texts of numbers put into the texts decoded, with what each is: "in"
\* a number whose f32 is in [-1, 1], with that f32, "out" a number whose
\* f32 is outside, "bad" a text the regex takes as a number and
\* f32::from_str refuses, "none" a text the regex does not take as a
\* number. A decimal within half a unit of the last place of 1.0 has the
\* f32 1.0.
NumberTexts ==
    { NumberText(<<"0">>, "in", FALSE, 0, 0),
      NumberText(<<"-", "0">>, "in", TRUE, 0, 0),
      NumberText(<<"1">>, "in", FALSE, 1, 0),
      NumberText(<<"-", "1">>, "in", TRUE, 1, 0),
      NumberText(<<"-", "0", ".", "5">>, "in", TRUE, 1, -1),
      NumberText(<<"1", ".", "0", "0", "0", "0">>, "in", FALSE, 1, 0),
      NumberText(<<".", "2", "5">>, "in", FALSE, 1, -2),
      NumberText(<<"1", ".">>, "in", FALSE, 1, 0),
      NumberText(<<"0", ".", "1">>, "in", FALSE, 13421773, -27),
      NumberText(<<"1", ".", "0", "0", "0", "0", "0", "0", "0", "1">>, "in", FALSE, 1, 0),
      NumberText(<<"-", "1", ".", "0", "0", "0", "0", "0", "0", "0", "5">>, "in", TRUE, 1, 0),
      NumberText(<<"0", ".", "5">> \o Tail(OneAndZeros(20)), "in", FALSE, 1, -1),
      NumberText(<<"1", ".", "0", "0", "0", "0", "0", "0", "0", "6">>, "out", FALSE, 8388609, -23),
      NumberText(<<"1", ".", "0", "0", "0", "1">>, "out", FALSE, 0, 0),
      NumberText(<<"-", "1", ".", "5">>, "out", TRUE, 0, 0),
      NumberText(<<"2">>, "out", FALSE, 0, 0),
      NumberText(OneAndZeros(39), "out", FALSE, 0, 0),
      NumberText(<<"1", ".", "2", ".", "3">>, "bad", FALSE, 0, 0),
      NumberText(<<".">>, "bad", FALSE, 0, 0),
      NumberText(<<"-", ".">>, "bad", FALSE, 0, 0),
      NumberText(<<"U+0663">>, "bad", FALSE, 0, 0),
      NumberText(<<"-">>, "none", FALSE, 0, 0),
      NumberText(<<"1", "e", "0">>, "none", FALSE, 0, 0),
      NumberText(<<"+", "1">>, "none", FALSE, 0, 0),
      NumberText(<<>>, "none", FALSE, 0, 0) }

\* The brackets and the separator around the two numbers: the first is the
\* pattern, the others break it.
TextShapes ==
    { [open |-> <<"(">>, sep |-> <<",">>, close |-> <<")">>, pattern |-> TRUE],
      [open |-> <<"[">>, sep |-> <<",">>, close |-> <<")">>, pattern |-> FALSE],
      [open |-> <<"(">>, sep |-> <<";">>, close |-> <<")">>, pattern |-> FALSE],
      [open |-> <<"(">>, sep |-> <<",">>, close |-> <<>>, pattern |-> FALSE],
      [open |-> <<>>, sep |-> <<",">>, close |-> <<")">>, pattern |-> FALSE] }

\* What may stand before and after the pair, and between its parts.
TextPaddings == {<<>>, <<" ">>, <<"(", "x">>}

TextSpaces == {<<>>, <<" ">>, <<"\t", "\n">>, <<"\r", "U+00A0">>}

\* The text of the pair (x, y) in the shape sh, pad around it, sp between
\* the parts.
PairText(sh, x, y, pad, sp) ==
    pad \o sh.open \o sp \o x.chars \o sp \o sh.sep \o sp \o y.chars \o sh.close \o pad

\* "{:.4}" of the f32 n / den: the decimal rounded to four places, ties to
\* even, as digits of round(10000 n / den).
Round4(n, den) ==
    LET scaled == Abs(n) * 10000
        q == scaled \div den
        r == scaled % den
    IN  IF 2 * r > den \/ (2 * r = den /\ q % 2 = 1) THEN q + 1 ELSE q

\* impl Display for SNFloat: write!(f, "{:.4}", value). The sign of the
\* f32 is printed, that of -0.0 too.
SNFloat_fmt(n, den, negative_zero) ==
    LET m == Round4(n, den)
    IN  (IF n < 0 \/ (n = 0 /\ negative_zero) THEN <<"-">> ELSE <<>>)
        \o <<Digits[(m \div 10000) + 1], ".",
             Digits[((m \div 1000) % 10) + 1], Digits[((m \div 100) % 10) + 1],
             Digits[((m \div 10) % 10) + 1], Digits[(m % 10) + 1]>>

\* impl Display for SNPoint and for SNComplex: write!(f, "({}, {})", x, y).
\* negative_zeros says of each coordinate that is zero whether it is -0.0.
SNPoint_fmt(x, y, den, negative_zeros) ==
    <<"(">> \o SNFloat_fmt(x, den, negative_zeros[1]) \o <<",", " ">>
        \o SNFloat_fmt(y, den, negative_zeros[2]) \o <<")">>

\* The f32 coordinates serialized: the multiples of 1 / BinaryDen in
\* [-1, 1], and -0.0.
BinaryBits == 6

BinaryDen == 2 ^ BinaryBits

BinaryCoords == (-BinaryDen) .. BinaryDen

ZeroSigns(x) == IF x = 0 THEN BOOLEAN ELSE {FALSE}

CallSNPointVisitStr ==
    /\ Idle
    /\ \E sh \in TextShapes, x \in NumberTexts, y \in NumberTexts,
          pad \in TextPaddings, sp \in TextSpaces :
        /\ call' = [fn |-> "SNPointVisitor::visit_str", v |-> PairText(sh, x, y, pad, sp),
                    pattern |-> sh.pattern, x |-> x, y |-> y]
        /\ UNCHANGED machineVars
        /\ ret' = SNPointVisitor_visit_str(PairText(sh, x, y, pad, sp))

CallSNComplexVisitStr ==
    /\ Idle
    /\ \E sh \in TextShapes, x \in NumberTexts, y \in NumberTexts,
          pad \in TextPaddings, sp \in TextSpaces :
        /\ call' = [fn |-> "SNComplexVisitor::visit_str", v |-> PairText(sh, x, y, pad, sp),
                    pattern |-> sh.pattern, x |-> x, y |-> y]
        /\ UNCHANGED machineVars
        /\ ret' = SNComplexVisitor_visit_str(PairText(sh, x, y, pad, sp))

\* serialize then deserialize: the text of to_string() is handed to
\* visit_str as it is.
CallSNPointRoundTrip ==
    /\ Idle
    /\ \E x \in BinaryCoords, y \in BinaryCoords :
        \E zx \in ZeroSigns(x), zy \in ZeroSigns(y) :
            /\ call' = [fn |-> "SNPoint::serialize/deserialize", x |-> x, y |-> y,
                        negative_zeros |-> <<zx, zy>>,
                        v |-> SNPoint_fmt(x, y, BinaryDen, <<zx, zy>>)]
            /\ UNCHANGED machineVars
            /\ ret' = SNPointVisitor_visit_str(SNPoint_fmt(x, y, BinaryDen, <<zx, zy>>))

CallSNComplexRoundTrip ==
    /\ Idle
    /\ \E x \in BinaryCoords, y \in BinaryCoords :
        \E zx \in ZeroSigns(x), zy \in ZeroSigns(y) :
            /\ call' = [fn |-> "SNComplex::serialize/deserialize", x |-> x, y |-> y,
                        negative_zeros |-> <<zx, zy>>,
                        v |-> SNPoint_fmt(x, y, BinaryDen, <<zx, zy>>)]
            /\ UNCHANGED machineVars
            /\ ret' = SNComplexVisitor_visit_str(SNPoint_fmt(x, y, BinaryDen, <<zx, zy>>))

TextInit ==
    /\ call = [fn |-> "none"]
    /\ ret = DecodeError
    /\ PoissonIdle
    /\ PreloaderIdle

TextNext ==
    \/ CallSNPointVisitStr
    \/ CallSNComplexVisitStr
    \/ CallSNPointRoundTrip
    \/ CallSNComplexRoundTrip

\* The specification of the text form.
TextSpec == TextInit /\ [][TextNext]_vars

\* ------------------------------------------------------------------------
\* Saving and loading a PointSet (point_sets.rs)
\*
\* Serialize writes the generator descriptor only (its fields are plain
\* integers and booleans, written as such); Deserialize reads the
\* descriptor and calls load(), which runs generate_point_set with
\* rand::thread_rng(), a random source unrelated to the one the saved set
\* was generated with.

\* The field values sampled for the descriptors that are saved.
SavedNibbles == {0, 1, 2, Nibble_MODULUS - 1}

SavedBytes == {0, 1, 7, 255}

SavedGenerators ==
    [variant : {"UniformGrid", "TriGrid", "HexGrid"}, x_count : SavedNibbles,
     y_count : SavedNibbles]
    \cup [variant : {"SparseGrid"}, x_count : SavedNibbles, y_count : SavedNibbles,
          x_mod : BOOLEAN, y_mod : BOOLEAN]
    \cup [variant : {"RandomRings"}, max_rings : SavedNibbles]
    \cup [variant : {"LinearIncreasingRings"}, max_count : SavedBytes,
          ring_size_delta : SavedNibbles]
    \cup [variant : {"FibonacciRings", "SquaredRings"}, max_count : SavedBytes]

\* A point set is generated from a descriptor with some random source and
\* serialized: what is written is ret.generator.
PointSetSerialize ==
    \E self \in SavedGenerators, rng \in Rngs :
        /\ GenIdle
        /\ call' = [fn |-> "PointSet::serialize", self |-> self, seed |-> rng.seed]
        /\ UNCHANGED machineVars
        /\ ret' = generate_point_set(self, rng, 0)

\* The saved descriptor is deserialized: load() generates the points anew
\* with the thread's random source. The points of the saved set are kept in
\* call.saved.
PointSetDeserialize ==
    \E rng \in Rngs :
        /\ call.fn = "PointSet::serialize"
        /\ ~ret.panic
        /\ call' = [fn |-> "PointSet::deserialize", self |-> ret.generator,
                    seed |-> rng.seed, saved_seed |-> call.seed, saved |-> ret.points]
        /\ UNCHANGED machineVars
        /\ ret' = generate_point_set(ret.generator, rng, 0)

LoadNext ==
    \/ PointSetSerialize
    \/ PointSetDeserialize

LoadSpec == Init /\ [][LoadNext]_vars

\* ------------------------------------------------------------------------
\* ElementaryAutomataRule (automata_rules.rs)
\*
\* A Boolean is a TLA+ boolean, a rule is its pattern: a sequence of 8
\* booleans, pattern[i] of the code at position i + 1.

\* a & b and a | b on unsigned integers, bit by bit.
RECURSIVE BitAnd(_, _)
BitAnd(a, b) ==
    IF a = 0 \/ b = 0 THEN 0
    ELSE (IF a % 2 = 1 /\ b % 2 = 1 THEN 1 ELSE 0) + 2 * BitAnd(a \div 2, b \div 2)

RECURSIVE BitOr(_, _)
BitOr(a, b) ==
    IF a = 0 THEN b
    ELSE IF b = 0 THEN a
    ELSE (IF a % 2 = 1 \/ b % 2 = 1 THEN 1 ELSE 0) + 2 * BitOr(a \div 2, b \div 2)

\* 1 << n
Shl1(n) == 2 ^ n

\* get_index_from_booleans with l and r taking each other's bit.
get_index_from_booleans_Mirrored(l, c, r) ==
    LET r1 == IF l THEN BitOr(0, 1) ELSE 0
        r2 == IF c THEN BitOr(r1, 2) ELSE r1
    IN  IF r THEN BitOr(r2, 4) ELSE r2

get_index_from_booleans(l, c, r) ==
    LET r1 == IF r THEN BitOr(0, 1) ELSE 0
        r2 == IF c THEN BitOr(r1, 2) ELSE r1
    IN  IF l THEN BitOr(r2, 4) ELSE r2

from_wolfram_code(code) == [i \in 1 .. 8 |-> BitAnd(code, Shl1(i - 1)) > 0]

get_value_from_booleans(pattern, l, c, r) == pattern[get_index_from_booleans(l, c, r) + 1]

CallGetValueFromBooleans ==
    \E code \in Bytes, l \in BOOLEAN, c \in BOOLEAN, r \in BOOLEAN :
        /\ Idle
        /\ call' = [fn |-> "get_value_from_booleans", code |-> code, l |-> l, c |-> c, r |-> r]
        /\ UNCHANGED machineVars
        /\ ret' = Ok(get_value_from_booleans(from_wolfram_code(code), l, c, r))

AutomataNext == CallGetValueFromBooleans

AutomataSpec == Init /\ [][AutomataNext]_vars

\* ------------------------------------------------------------------------
\* BitColor (colors.rs)
\*
\* A BitColor is the name of its variant; its components are a sequence of
\* 3 booleans (red, green, blue).

BitColors == {"Black", "Red", "Green", "Blue", "Cyan", "Magenta", "Yellow", "White"}

BitColor_to_components(self) ==
    CASE self = "Black" -> <<FALSE, FALSE, FALSE>>
      [] self = "Red" -> <<TRUE, FALSE, FALSE>>
      [] self = "Green" -> <<FALSE, TRUE, FALSE>>
      [] self = "Blue" -> <<FALSE, FALSE, TRUE>>
      [] self = "Cyan" -> <<FALSE, TRUE, TRUE>>
      [] self = "Magenta" -> <<TRUE, FALSE, TRUE>>
      [] self = "Yellow" -> <<TRUE, TRUE, FALSE>>
      [] self = "White" -> <<TRUE, TRUE, TRUE>>

\* has_color: the loop over the 3 channels, unrolled.
BitColor_has_color(self, other) ==
    LET current_color == BitColor_to_components(self)
        other_color == BitColor_to_components(other)
        h1 == FALSE \/ (current_color[1] /\ other_color[1])
        h2 == h1 \/ (current_color[2] /\ other_color[2])
    IN  h2 \/ (current_color[3] /\ other_color[3])

BitColor_give_color(self, other) ==
    LET current_color == BitColor_to_components(self)
        other_color == BitColor_to_components(other)
    IN  [i \in 1 .. 3 |-> current_color[i] \/ other_color[i]]

\* take_color without the negation of the other colour.
BitColor_take_color_NoNot(self, other) ==
    LET current_color == BitColor_to_components(self)
        other_color == BitColor_to_components(other)
    IN  [i \in 1 .. 3 |-> current_color[i] /\ other_color[i]]

BitColor_take_color(self, other) ==
    LET current_color == BitColor_to_components(self)
        other_color == BitColor_to_components(other)
    IN  [i \in 1 .. 3 |-> current_color[i] /\ ~other_color[i]]

BitColor_xor_color(self, other) ==
    LET current_color == BitColor_to_components(self)
        other_color == BitColor_to_components(other)
    IN  [i \in 1 .. 3 |->
            (current_color[i] \/ other_color[i]) /\ ~(current_color[i] /\ other_color[i])]

BitColor_eq_color(self, other) ==
    LET current_color == BitColor_to_components(self)
        other_color == BitColor_to_components(other)
    IN  [i \in 1 .. 3 |-> current_color[i] = other_color[i]]

CallHasColor ==
    \E self \in BitColors, other \in BitColors :
        /\ Idle
        /\ call' = [fn |-> "has_color", self |-> self, other |-> other]
        /\ UNCHANGED machineVars
        /\ ret' = Ok(BitColor_has_color(self, other))

CallGiveColor ==
    \E self \in BitColors, other \in BitColors :
        /\ Idle
        /\ call' = [fn |-> "give_color", self |-> self, other |-> other]
        /\ UNCHANGED machineVars
        /\ ret' = Ok(BitColor_give_color(self, other))

CallTakeColor ==
    \E self \in BitColors, other \in BitColors :
        /\ Idle
        /\ call' = [fn |-> "take_color", self |-> self, other |-> other]
        /\ UNCHANGED machineVars
        /\ ret' = Ok(BitColor_take_color(self, other))

CallXorColor ==
    \E self \in BitColors, other \in BitColors :
        /\ Idle
        /\ call' = [fn |-> "xor_color", self |-> self, other |-> other]
        /\ UNCHANGED machineVars
        /\ ret' = Ok(BitColor_xor_color(self, other))

CallEqColor ==
    \E self \in BitColors, other \in BitColors :
        /\ Idle
        /\ call' = [fn |-> "eq_color", self |-> self, other |-> other]
        /\ UNCHANGED machineVars
        /\ ret' = Ok(BitColor_eq_color(self, other))

BitColorNext ==
    \/ CallHasColor
    \/ CallGiveColor
    \/ CallTakeColor
    \/ CallXorColor
    \/ CallEqColor

BitColorSpec == Init /\ [][BitColorNext]_vars

\* ------------------------------------------------------------------------
\* ColorBlendFunctions::blend (color_blend_functions.rs)
\*
\* A FloatColor is a record of 4 UNFloats on the lattice 1 / One. The
\* products of two channels are whole on the lattice 1 / One^2 and the mean
\* of two alphas on 1 / (2 One): the channels of a blended colour are held on
\* the lattice 1 / BlendOne, BlendOne = 2 One^2.

BlendOne == 2 * One * One

\* UNFloat::new on a lattice whose 1.0 is `one` units.
UNFloat_new_on(value, one) ==
    IF value >= 0 /\ value <= one THEN Ok(value) ELSE Panic

\* A channel of an input colour, on the lattice of the result.
ToBlend(v) == v * 2 * One

\* if a < 0.5 { (2.0 * a * b).max(1.0) } else { 1.0 - (2.0 * ((1.0 - a) * (1.0 - b))) }
OverlayChannel(a, b) ==
    UNFloat_new_on(IF a < Half
                   THEN Max(2 * (2 * a * b), BlendOne)
                   ELSE BlendOne - 2 * (2 * ((One - a) * (One - b))),
                   BlendOne)

\* 1.0 - ((1.0 - a) * (1.0 - b))
ScreenDodgeChannel(a, b) ==
    UNFloat_new_on(BlendOne - 2 * ((One - a) * (One - b)), BlendOne)

\* (a.a + b.a) * 0.5
BlendAlpha(a, b) == UNFloat_new_on((a.a + b.a) * One, BlendOne)

\* A FloatColor built from four UNFloat::new results.
FloatColorOf(r, g, b, a) ==
    IF r.panic \/ g.panic \/ b.panic \/ a.panic THEN Panic
    ELSE Ok([r |-> r.v, g |-> g.v, b |-> b.v, a |-> a.v])

\* blend: pick is what Boolean::random draws for Dissolve.
ColorBlendFunctions_blend(self, a, b, pick) ==
    CASE self = "Dissolve" ->
            LET c == IF pick THEN a ELSE b
            IN  Ok([r |-> ToBlend(c.r), g |-> ToBlend(c.g), b |-> ToBlend(c.b),
                    a |-> ToBlend(c.a)])
      [] self = "Overlay" ->
            FloatColorOf(OverlayChannel(a.r, b.r), OverlayChannel(a.g, b.g),
                         OverlayChannel(a.b, b.b), BlendAlpha(a, b))
      [] self = "ScreenDodge" ->
            FloatColorOf(ScreenDodgeChannel(a.r, b.r), ScreenDodgeChannel(a.g, b.g),
                         ScreenDodgeChannel(a.b, b.b), BlendAlpha(a, b))

\* The colours blended: every red, the ends of green, blue on either side
\* of 0.5, three alphas.
FloatColors == [r : 0 .. One, g : {0, One}, b : {Half - 1, Half}, a : {0, Half, One}]

CallBlendDissolve ==
    \E a \in FloatColors, b \in FloatColors, pick \in BOOLEAN :
        /\ Idle
        /\ call' = [fn |-> "blend", self |-> "Dissolve", a |-> a, b |-> b, pick |-> pick]
        /\ UNCHANGED machineVars
        /\ ret' = ColorBlendFunctions_blend("Dissolve", a, b, pick)

CallBlendOverlay ==
    \E a \in FloatColors, b \in FloatColors :
        /\ Idle
        /\ call' = [fn |-> "blend", self |-> "Overlay", a |-> a, b |-> b, pick |-> FALSE]
        /\ UNCHANGED machineVars
        /\ ret' = ColorBlendFunctions_blend("Overlay", a, b, FALSE)

CallBlendScreenDodge ==
    \E a \in FloatColors, b \in FloatColors :
        /\ Idle
        /\ call' = [fn |-> "blend", self |-> "ScreenDodge", a |-> a, b |-> b, pick |-> FALSE]
        /\ UNCHANGED machineVars
        /\ ret' = ColorBlendFunctions_blend("ScreenDodge", a, b, FALSE)

BlendNext ==
    \/ CallBlendDissolve
    \/ CallBlendOverlay
    \/ CallBlendScreenDodge

BlendSpec == Init /\ [][BlendNext]_vars

\* ------------------------------------------------------------------------
\* Buffer::draw_line (buffers.rs)
\*
\* A Buffer is a record [width, height, array], array a function of the
\* cells <<y, x>>. Points are <<x, y>> with SNFloat coordinates on the
\* lattice 1 / One; the coordinates drawn are those f32 holds exactly.

\* The largest side of a buffer.
MaxSide == 4

BufferCells(width, height) == (0 .. (height - 1)) \X (0 .. (width - 1))

\* v.to_unsigned().into_inner() of the f32 nearest to v / One, for every
\* lattice value v. The debug assertion of map_range holds for every
\* SNFloat, so to_unsigned returns in every build.
LatticeToUnsigned ==
    [v \in (-One) .. One |-> SNFloat_to_unsigned(F32OfRatio(v, One), TRUE).v]

\* (v.to_unsigned().into_inner() * side as f32).round() as usize
ScaleRound(v, side) ==
    F32RoundAsUsize(F32Mul(LatticeToUnsigned[v], F32OfInt(side)))

\* point_to_uint without .min(width - 1), .min(height - 1).
point_to_uint_NoMin(self, coords) ==
    << ScaleRound(coords[1], self.width), ScaleRound(coords[2], self.height) >>

point_to_uint(self, coords) ==
    << Min(ScaleRound(coords[1], self.width), self.width - 1),
       Min(ScaleRound(coords[2], self.height), self.height - 1) >>

\* The octant of the bresenham crate for the line start -> end.
Octant_from_points(start, end) ==
    LET dx0 == end[1] - start[1]
        dy0 == end[2] - start[2]
        dx1 == IF dy0 < 0 THEN -dx0 ELSE dx0
        dy1 == IF dy0 < 0 THEN -dy0 ELSE dy0
        o1 == IF dy0 < 0 THEN 4 ELSE 0
        dx2 == IF dx1 < 0 THEN dy1 ELSE dx1
        dy2 == IF dx1 < 0 THEN -dx1 ELSE dy1
        o2 == IF dx1 < 0 THEN o1 + 2 ELSE o1
    IN  IF dx2 < dy2 THEN o2 + 1 ELSE o2

Octant_to_octant0(octant, p) ==
    CASE octant = 0 -> << p[1], p[2] >>
      [] octant = 1 -> << p[2], p[1] >>
      [] octant = 2 -> << p[2], -p[1] >>
      [] octant = 3 -> << -p[1], p[2] >>
      [] octant = 4 -> << -p[1], -p[2] >>
      [] octant = 5 -> << -p[2], -p[1] >>
      [] octant = 6 -> << -p[2], p[1] >>
      [] octant = 7 -> << p[1], -p[2] >>

Octant_from_octant0(octant, p) ==
    CASE octant = 0 -> << p[1], p[2] >>
      [] octant = 1 -> << p[2], p[1] >>
      [] octant = 2 -> << -p[2], p[1] >>
      [] octant = 3 -> << -p[1], p[2] >>
      [] octant = 4 -> << -p[1], -p[2] >>
      [] octant = 5 -> << -p[2], -p[1] >>
      [] octant = 6 -> << p[2], -p[1] >>
      [] octant = 7 -> << p[1], -p[2] >>

\* Bresenham's Iterator::next, run until it returns None: the points from
\* (x, y) up to, not including, the column x1, in octant 0.
RECURSIVE Bresenham_next(_, _, _, _, _, _)
Bresenham_next(x, y, dx, dy, x1, diff) ==
    IF x >= x1 THEN <<>>
    ELSE LET stepped == diff >= 0
             y2 == IF stepped THEN y + 1 ELSE y
             diff2 == (IF stepped THEN diff - dx ELSE diff) + dy
         IN  << <<x, y>> >> \o Bresenham_next(x + 1, y2, dx, dy, x1, diff2)

\* Bresenham::new(start, end), collected: the line without its end point.
Bresenham_new(start, end) ==
    LET octant == Octant_from_points(start, end)
        s == Octant_to_octant0(octant, start)
        e == Octant_to_octant0(octant, end)
        dx == e[1] - s[1]
        dy == e[2] - s[2]
        line == Bresenham_next(s[1], s[2], dx, dy, e[1], dy - dx)
    IN  [i \in 1 .. Len(line) |-> Octant_from_octant0(octant, line[i])]

\* draw_line: every point of Bresenham::new(from, to).chain(once(to)) is
\* written through IndexMut, which panics outside the array.
draw_line(self, from, to, value) ==
    LET from_bresenham == point_to_uint(self, from)
        to_bresenham == point_to_uint(self, to)
        line == Append(Bresenham_new(from_bresenham, to_bresenham), to_bresenham)
        cells == {<<line[i][2], line[i][1]>> : i \in 1 .. Len(line)}
    IN  IF cells \subseteq BufferCells(self.width, self.height)
        THEN Ok([self EXCEPT !.array =
                    [c \in DOMAIN self.array |-> IF c \in cells THEN value ELSE self.array[c]]])
        ELSE Panic

\* The coordinates of the points a line is drawn between.
BufferCoords == {-One, -Half, 0, Half, One}

\* The buffers drawn on: every size up to MaxSide, filled with 0 or with a
\* chequerboard of 0 and 1.
Buffers ==
    {[width |-> w, height |-> h,
      array |-> [c \in BufferCells(w, h) |-> IF chequered THEN (c[1] + c[2]) % 2 ELSE 0]] :
        w \in 1 .. MaxSide, h \in 1 .. MaxSide, chequered \in BOOLEAN}

\* The value drawn, which no cell holds before.
DrawnValue == 2

CallDrawLine ==
    \E self \in Buffers, from \in BufferCoords \X BufferCoords,
       to \in BufferCoords \X BufferCoords :
        /\ Idle
        /\ call' = [fn |-> "draw_line", self |-> self, from |-> from, to |-> to]
        /\ UNCHANGED machineVars
        /\ ret' = draw_line(self, from, to, DrawnValue)

BufferNext == CallDrawLine

BufferSpec == Init /\ [][BufferNext]_vars

\* ------------------------------------------------------------------------
\* Sign conversions (continuous.rs, util.rs) in f32 arithmetic
\*
\* The conversions are made on f32 values, every operation rounded as f32
\* rounds it. The values converted are a sample of the f32 of [0, 1] and
\* of [-1, 1]: the multiples of 2^-SampleBits, the quotients i / n of the
\* grids, the smallest f32 and powers of two down to them, the f32 just
\* below 1.0, and both zeros.

SampleBits == 4

\* The number of grid values of test_integer_conversions, in the model and
\* in the test.
GridSteps == 8

TestSteps == 100000

\* The exponents of the small powers of two converted.
SmallExps == {-149, -127, -126, -64, -30, -26, -25, -24, -23, -22}

FloatUNFloats ==
    {F32OfDyadic(k, SampleBits, FALSE) : k \in 0 .. (2 ^ SampleBits)}
        \cup {F32OfRatio(g[1], g[2]) : g \in {h \in (0 .. GridSteps) \X (1 .. GridSteps) : h[1] <= h[2]}}
        \cup {F32(FALSE, FALSE, m, e) : m \in {1, 3}, e \in SmallExps}
        \cup {F32OfDyadic(2 ^ F32Bits - k, F32Bits, FALSE) : k \in 1 .. 3}
        \cup {F32(TRUE, FALSE, 0, 0)}

FloatSNFloats == FloatUNFloats \cup {F32Neg(x) : x \in FloatUNFloats}

\* The grid values i / n converted: every one of the small grids, and some
\* of the grid of the test.
GridValues ==
    {<<i, n>> \in (0 .. GridSteps) \X (1 .. GridSteps) : i <= n}
        \cup {<<i, TestSteps>> : i \in {0, 1, 2, 3, 33333, 50000, 66667, 99999}}

\* un.to_signed().to_unsigned()
CallUnsignedRoundTrip ==
    \E un \in FloatUNFloats, debug_assertions \in BOOLEAN :
        LET sn == UNFloat_to_signed(un, debug_assertions)
        IN  /\ Idle
            /\ call' = [fn |-> "to_signed().to_unsigned()", self |-> un,
                        debug_assertions |-> debug_assertions]
            /\ UNCHANGED machineVars
            /\ ret' = IF sn.panic THEN Panic
                      ELSE SNFloat_to_unsigned(sn.v, debug_assertions)

\* sn.to_unsigned().to_signed()
CallSignedRoundTrip ==
    \E sn \in FloatSNFloats, debug_assertions \in BOOLEAN :
        LET un == SNFloat_to_unsigned(sn, debug_assertions)
        IN  /\ Idle
            /\ call' = [fn |-> "to_unsigned().to_signed()", self |-> sn,
                        debug_assertions |-> debug_assertions]
            /\ UNCHANGED machineVars
            /\ ret' = IF un.panic THEN Panic
                      ELSE UNFloat_to_signed(un.v, debug_assertions)

\* test_integer_conversions for the grid value i / n:
\* (un2.into_inner() * n as f32).round() as usize
CallGridRoundTrip ==
    \E g \in GridValues, debug_assertions \in BOOLEAN :
        LET un == F32OfRatio(g[1], g[2])
            sn == UNFloat_to_signed(un, debug_assertions)
            un2 == IF sn.panic THEN Panic
                   ELSE SNFloat_to_unsigned(sn.v, debug_assertions)
        IN  /\ Idle
            /\ call' = [fn |-> "grid round trip", i |-> g[1], n |-> g[2],
                        debug_assertions |-> debug_assertions]
            /\ UNCHANGED machineVars
            /\ ret' = IF un2.panic THEN Panic
                      ELSE Ok(F32RoundAsUsize(F32Mul(un2.v, F32OfInt(g[2]))))

SignNext ==
    \/ CallUnsignedRoundTrip
    \/ CallSignedRoundTrip
    \/ CallGridRoundTrip

SignSpec == Init /\ [][SignNext]_vars

\* ------------------------------------------------------------------------
\* Preloader (preloader.rs) as a state machine
\*
\* Two threads share the channel mpsc::sync_channel(pool_size) and the flag
\* running. The atomic flag has one value at any instant: a load returns
\* the last store. The values generated are numbered in generation order,
\* modulo ValueIds, which is more than the channel and the child can hold.
\*
\*   pool_size   the bound of the channel; 0 makes it a rendezvous channel
\*   running     the AtomicBool
\*   channel     the values buffered in the channel, oldest first
\*   child_pc    "generate", "send" (about to call send), "blocked" (in
\*               send on a rendezvous channel, offering child_item),
\*               "check" (about to load running), "done" (thread finished,
\*               sender dropped), "panicked" (generate panicked: the thread
\*               has unwound and the sender is dropped)
\*   child_item  the value the child holds, or None
\*   parent_pc   "live", "drain" and "join" (within drop), "dropped",
\*               "panic" (drop panicked in join().unwrap())
\*   generated   the number of the next value to generate
\*   received    the number of values the parent took from the channel
\*   result      what the last get_next / get_next_or_default returned
\*   late_sends  the sends completed since running was cleared

\* The largest pool_size.
MaxPool == 2

ValueIds == MaxPool + 4

\* The values that have been generated and not received.
Outstanding == (generated - received + ValueIds) % ValueIds

\* What try_recv finds: the oldest buffered value, or the value of a sender
\* blocked on a rendezvous channel, or nothing, which is Disconnected once
\* the sender is dropped.
TryRecv_Newest ==
    IF channel # <<>> THEN [kind |-> "item", v |-> channel[Len(channel)]]
    ELSE IF child_pc = "blocked" THEN [kind |-> "item", v |-> child_item]
    ELSE IF child_pc \in {"done", "panicked"} THEN [kind |-> "disconnected", v |-> None]
    ELSE [kind |-> "empty", v |-> None]

TryRecv ==
    IF channel # <<>> THEN [kind |-> "item", v |-> Head(channel)]
    ELSE IF child_pc = "blocked" THEN [kind |-> "item", v |-> child_item]
    ELSE IF child_pc \in {"done", "panicked"} THEN [kind |-> "disconnected", v |-> None]
    ELSE [kind |-> "empty", v |-> None]

\* The channel and the child after a receive that found an item: a buffered
\* value leaves the buffer, a rendezvous value leaves the blocked child,
\* whose send returns Ok.
Received ==
    /\ received' = (received + 1) % ValueIds
    /\ IF channel # <<>>
       THEN /\ channel' = Tail(channel)
            /\ UNCHANGED <<child_pc, child_item, late_sends>>
       ELSE /\ child_pc' = "check"
            /\ child_item' = None
            /\ late_sends' = IF running THEN late_sends ELSE Min(late_sends + 1, 2)
            /\ UNCHANGED channel

\* generator.generate(), which returns.
ChildGenerate ==
    /\ child_pc = "generate"
    /\ child_item' = generated
    /\ generated' = (generated + 1) % ValueIds
    /\ child_pc' = "send"
    /\ UNCHANGED <<pool_size, running, channel, parent_pc, received, result, late_sends>>
    /\ UNCHANGED <<call, ret, poissonVars>>

\* generator.generate(), which panics: the child thread unwinds, which
\* drops the sender; what is buffered stays in the channel.
ChildPanic ==
    /\ child_pc = "generate"
    /\ child_pc' = "panicked"
    /\ UNCHANGED <<pool_size, running, channel, child_item, parent_pc, generated, received,
                   result, late_sends>>
    /\ UNCHANGED <<call, ret, poissonVars>>

\* send on a channel that never lacks room.
ChildSend_Unbounded ==
    /\ child_pc = "send"
    /\ pool_size > 0
    /\ Len(channel) <= pool_size
    /\ channel' = Append(channel, child_item)
    /\ child_item' = None
    /\ child_pc' = "check"
    /\ late_sends' = IF running THEN late_sends ELSE Min(late_sends + 1, 2)
    /\ UNCHANGED <<pool_size, running, parent_pc, generated, received, result>>
    /\ UNCHANGED <<call, ret, poissonVars>>

\* sender.send on a buffered channel: blocks while the buffer is full. The
\* Receiver lives until drop has returned, so send does not fail.
ChildSend ==
    /\ child_pc = "send"
    /\ pool_size > 0
    /\ Len(channel) < pool_size
    /\ channel' = Append(channel, child_item)
    /\ child_item' = None
    /\ child_pc' = "check"
    /\ late_sends' = IF running THEN late_sends ELSE Min(late_sends + 1, 2)
    /\ UNCHANGED <<pool_size, running, parent_pc, generated, received, result>>
    /\ UNCHANGED <<call, ret, poissonVars>>

\* sender.send on a rendezvous channel: the child blocks until a receive
\* takes the value.
ChildOffer ==
    /\ child_pc = "send"
    /\ pool_size = 0
    /\ child_pc' = "blocked"
    /\ UNCHANGED <<pool_size, running, channel, child_item, parent_pc, generated, received,
                   result, late_sends>>
    /\ UNCHANGED <<call, ret, poissonVars>>

\* if !running_child.load(Relaxed) { break; }
ChildCheck ==
    /\ child_pc = "check"
    /\ child_pc' = IF running THEN "generate" ELSE "done"
    /\ UNCHANGED <<pool_size, running, channel, child_item, parent_pc, generated, received,
                   result, late_sends>>
    /\ UNCHANGED <<call, ret, poissonVars>>

\* get_next_or_default: try_recv, the default on Empty, a panic on
\* Disconnected. available records what the channel offered at the call.
GetNextOrDefault ==
    /\ parent_pc = "live"
    /\ result' = [op |-> "get_next_or_default",
                  kind |-> CASE TryRecv.kind = "item" -> "item"
                             [] TryRecv.kind = "empty" -> "default"
                             [] TryRecv.kind = "disconnected" -> "panic",
                  v |-> TryRecv.v,
                  available |-> IF channel # <<>> THEN channel
                                ELSE IF child_pc = "blocked" THEN <<child_item>> ELSE <<>>,
                  connected |-> child_pc \notin {"done", "panicked"},
                  index |-> received]
    /\ IF TryRecv.kind = "item"
       THEN Received
       ELSE UNCHANGED <<channel, child_pc, child_item, received, late_sends>>
    /\ UNCHANGED <<pool_size, running, parent_pc, generated>>
    /\ UNCHANGED <<call, ret, poissonVars>>

\* get_next: recv blocks until the channel offers a value or the sender is
\* gone, and expect panics on the RecvError of a sender that is gone.
GetNext ==
    /\ parent_pc = "live"
    /\ TryRecv.kind # "empty"
    /\ result' = [op |-> "get_next",
                  kind |-> IF TryRecv.kind = "item" THEN "item" ELSE "panic",
                  v |-> TryRecv.v,
                  available |-> IF channel # <<>> THEN channel
                                ELSE IF child_pc = "blocked" THEN <<child_item>> ELSE <<>>,
                  connected |-> child_pc \notin {"done", "panicked"},
                  index |-> received]
    /\ IF TryRecv.kind = "item"
       THEN Received
       ELSE UNCHANGED <<channel, child_pc, child_item, received, late_sends>>
    /\ UNCHANGED <<pool_size, running, parent_pc, generated>>
    /\ UNCHANGED <<call, ret, poissonVars>>

\* drop: running is true, the child thread is taken and the flag cleared.
DropStore ==
    /\ parent_pc = "live"
    /\ running
    /\ running' = FALSE
    /\ parent_pc' = "drain"
    /\ UNCHANGED <<pool_size, channel, child_pc, child_item, generated, received, result,
                   late_sends>>
    /\ UNCHANGED <<call, ret, poissonVars>>

\* drop: one turn of loop { if self.receiver.try_recv().is_err() { break; } }
DropDrain ==
    /\ parent_pc = "drain"
    /\ IF TryRecv.kind = "item"
       THEN Received /\ UNCHANGED parent_pc
       ELSE /\ parent_pc' = "join"
            /\ UNCHANGED <<channel, child_pc, child_item, received, late_sends>>
    /\ UNCHANGED <<pool_size, running, generated, result>>
    /\ UNCHANGED <<call, ret, poissonVars>>

\* drop: child_thread.join() returns once the child thread has ended, Ok
\* when it finished and Err when it panicked, on which unwrap panics.
DropJoin ==
    /\ parent_pc = "join"
    /\ child_pc \in {"done", "panicked"}
    /\ parent_pc' = IF child_pc = "done" THEN "dropped" ELSE "panic"
    /\ UNCHANGED <<pool_size, running, channel, child_pc, child_item, generated, received,
                   result, late_sends>>
    /\ UNCHANGED <<call, ret, poissonVars>>

\* Preloader::new(pool_size, generator_fn, default) has returned: the child
\* thread is spawned and about to generate its first value.
PreloaderInit ==
    /\ call = [fn |-> "none"]
    /\ ret = Ok(0)
    /\ PoissonIdle
    /\ pool_size \in 0 .. MaxPool
    /\ running = TRUE
    /\ channel = <<>>
    /\ child_pc = "generate"
    /\ child_item = None
    /\ parent_pc = "live"
    /\ generated = 0
    /\ received = 0
    /\ result = [op |-> "none"]
    /\ late_sends = 0

PreloaderNext ==
    \/ ChildGenerate
    \/ ChildPanic
    \/ ChildSend
    \/ ChildOffer
    \/ ChildCheck
    \/ GetNextOrDefault
    \/ GetNext
    \/ DropStore
    \/ DropDrain
    \/ DropJoin

PreloaderSpec == PreloaderInit /\ [][PreloaderNext]_vars

\* Both threads are scheduled: a step of the child or of drop that stays
\* possible is taken.
PreloaderFairSpec ==
    /\ PreloaderSpec
    /\ WF_vars(ChildGenerate)
    /\ WF_vars(ChildSend)
    /\ WF_vars(ChildOffer)
    /\ WF_vars(ChildCheck)
    /\ WF_vars(DropDrain)
    /\ WF_vars(DropJoin)

\* ------------------------------------------------------------------------
\* Rule mutation and neighbourhoods (automata_rules.rs)
\*
\* A PixelNeighbourhood is the name of its variant; offsets() is the list of
\* (dx, dy) pairs of the source, entry for entry.  A LifeLikeTable is a record
\* of two booleans, an IndivAutomataRule a record of its neighbourhood and
\* its Vec of tables (a sequence, so rules[i] of the source is rules[i + 1]).

PixelNeighbourhoods ==
    {"Vertical", "Horizontal", "DiagLeft", "DiagRight", "Melt", "BigMelt",
     "VonNeumann", "AntiVonNeumann", "Cross", "Moore", "Spiral", "Diamond",
     "Circle", "Flower", "Square"}

offsets(self) ==
    CASE self = "Vertical" -> << <<0, -1>>, <<0, 1>> >>
      [] self = "Horizontal" -> << <<-1, 0>>, <<1, 0>> >>
      [] self = "DiagLeft" -> << <<-1, -1>>, <<1, 1>> >>
      [] self = "DiagRight" -> << <<1, -1>>, <<-1, 1>> >>
      [] self = "Melt" -> << <<-1, -1>>, <<0, -1>>, <<1, -1>> >>
      [] self = "BigMelt" ->
            << <<-1, -1>>, <<0, -1>>, <<1, -1>>, <<-1, -2>>, <<0, -2>>, <<1, -2>> >>
      [] self = "VonNeumann" -> << <<-1, 0>>, <<1, 0>>, <<0, -1>>, <<0, 1>> >>
      [] self = "AntiVonNeumann" -> << <<-1, -1>>, <<1, -1>>, <<1, -1>>, <<1, 1>> >>
      [] self = "Cross" ->
            << <<-1, 0>>, <<-2, 0>>, <<1, 0>>, <<2, 0>>,
               <<0, -1>>, <<0, -2>>, <<0, 1>>, <<0, 2>> >>
      [] self = "Moore" ->
            << <<-1, -1>>, <<-1, 0>>, <<-1, 1>>, <<0, -1>>,
               <<0, 1>>, <<1, -1>>, <<1, 0>>, <<1, 1>> >>
      [] self = "Spiral" ->
            << <<-1, 0>>, <<-2, 1>>, <<1, 0>>, <<2, 1>>,
               <<0, -1>>, <<1, -2>>, <<0, 1>>, <<1, 2>> >>
      [] self = "Diamond" ->
            << <<-1, -1>>, <<-2, 0>>, <<-1, 1>>, <<2, 0>>,
               <<1, -1>>, <<0, -2>>, <<1, 1>>, <<0, 2>> >>
      [] self = "Circle" ->
            << <<-2, -1>>, <<-2, 0>>, <<-2, 1>>, <<2, -1>>, <<2, 0>>, <<2, 1>>,
               <<-1, -2>>, <<0, -2>>, <<1, -2>>, <<-1, 2>>, <<0, 2>>, <<1, 2>> >>
      [] self = "Flower" ->
            << <<-2, -1>>, <<-1, 0>>, <<-2, 1>>, <<2, -1>>, <<1, 0>>, <<2, 1>>,
               <<-1, -2>>, <<0, -1>>, <<1, -2>>, <<-1, 2>>, <<0, 1>>, <<1, 2>> >>
      [] self = "Square" ->
            << <<-2, -2>>, <<-2, -1>>, <<-2, 0>>, <<-2, 1>>,
               <<2, -2>>, <<2, -1>>, <<2, 0>>, <<2, 1>>,
               <<-2, 2>>, <<-1, -2>>, <<0, -2>>, <<1, -2>>,
               <<2, 2>>, <<-1, 2>>, <<0, 2>>, <<1, 2>> >>

\* The values gen::<usize>() is sampled over: every residue of every modulus
\* the rules take (8, and the offset counts 2 .. 16) is drawn more than once.
MaxDraw == 33

UsizeDraws == 0 .. MaxDraw

\* Boolean::mutate_rng: gen_range(0..2) picks a fresh random value or the
\* negation.
Boolean_mutate_rng(self, choice, random) == IF choice = 0 THEN random ELSE ~self

\* ElementaryAutomataRule::mutate_rng: gen::<bool>() is `resample`, the rule
\* generate_rng would return is `fresh`, gen::<usize>() is `draw`.
ElementaryAutomataRule_mutate_rng(self, resample, fresh, draw) ==
    IF resample THEN fresh
    ELSE LET index == draw % 8
         IN  [self EXCEPT ![index + 1] = ~self[index + 1]]

LifeLikeTables == [birth : BOOLEAN, survival : BOOLEAN]

\* derive(Mutatable) on LifeLikeTable: one field is picked and mutated.
LifeLikeTable_mutate_rng(self, field, choice, random) ==
    IF field = 0
    THEN [self EXCEPT !.birth = Boolean_mutate_rng(self.birth, choice, random)]
    ELSE [self EXCEPT !.survival = Boolean_mutate_rng(self.survival, choice, random)]

\* IndivAutomataRule::generate_rng: one table for every i in 0 ..= n, where
\* tables[i + 1] is what LifeLikeTable::generate_rng returned for i.
IndivAutomataRule_generate_rng(neighbourhood, tables) ==
    LET n == Len(offsets(neighbourhood))
    IN  [neighbourhood |-> neighbourhood, rules |-> SubSeq(tables, 1, n + 1)]

\* The index of the table IndivAutomataRule::mutate_rng mutates.
IndivAutomataRule_mutated_index(self, draw) == draw % Len(offsets(self.neighbourhood))

IndivAutomataRule_mutate_rng(self, resample, fresh, draw, field, choice, random) ==
    IF resample THEN fresh
    ELSE LET index == IndivAutomataRule_mutated_index(self, draw)
         IN  [self EXCEPT !.rules[index + 1] =
                  LifeLikeTable_mutate_rng(self.rules[index + 1], field, choice, random)]

\* What LifeLikeTable::generate_rng returns for i = 0, 1, ... when every
\* table is `even` on even i and `odd` on odd i.
RECURSIVE GeneratedTables(_, _, _)
GeneratedTables(n, even, odd) ==
    IF n = 0 THEN <<>>
    ELSE Append(GeneratedTables(n - 1, even, odd), IF n % 2 = 1 THEN even ELSE odd)

\* The longest offset list (Square) has 16 entries, so 17 tables are enough.
MaxTables == 17

\* The rules the calls start from.
GeneratedIndivRules ==
    {IndivAutomataRule_generate_rng(nb, GeneratedTables(MaxTables, t, t)) :
        nb \in PixelNeighbourhoods, t \in LifeLikeTables}
    \cup {IndivAutomataRule_generate_rng(nb,
              GeneratedTables(MaxTables, [birth |-> TRUE, survival |-> FALSE],
                              [birth |-> FALSE, survival |-> TRUE])) :
            nb \in PixelNeighbourhoods}

SamplePatterns == {from_wolfram_code(0), from_wolfram_code(110), from_wolfram_code(255)}

CallOffsets ==
    /\ Idle
    /\ \E self \in PixelNeighbourhoods :
          /\ call' = [fn |-> "offsets", self |-> self]
          /\ ret' = Ok(offsets(self))
    /\ UNCHANGED machineVars

CallElementaryMutate ==
    /\ Idle
    /\ \E code \in Bytes, resample \in BOOLEAN :
          \E fresh \in (IF resample THEN SamplePatterns ELSE {from_wolfram_code(code)}),
             draw \in (IF resample THEN {0} ELSE UsizeDraws) :
              /\ call' = [fn |-> "ElementaryAutomataRule::mutate_rng",
                          self |-> from_wolfram_code(code), resample |-> resample,
                          draw |-> draw]
              /\ ret' = Ok(ElementaryAutomataRule_mutate_rng(from_wolfram_code(code),
                                                             resample, fresh, draw))
    /\ UNCHANGED machineVars

\* The random choices of one table mutation: the field, gen_range(0..2) and,
\* when it is 0, the value Boolean::random returns.
TableChoices ==
    {<<field, choice, random>> \in (0 .. 1) \X (0 .. 1) \X BOOLEAN :
        choice = 1 => random}

CallIndivMutate ==
    /\ Idle
    /\ \E self \in GeneratedIndivRules, resample \in BOOLEAN :
          \E fresh \in (IF resample THEN GeneratedIndivRules ELSE {self}),
             draw \in (IF resample THEN {0} ELSE UsizeDraws),
             t \in (IF resample THEN {<<0, 0, TRUE>>} ELSE TableChoices) :
              /\ call' = [fn |-> "IndivAutomataRule::mutate_rng", self |-> self,
                          resample |-> resample, draw |-> draw]
              /\ ret' = Ok(IndivAutomataRule_mutate_rng(self, resample, fresh, draw,
                                                         t[1], t[2], t[3]))
    /\ UNCHANGED machineVars

RuleNext ==
    \/ CallOffsets
    \/ CallElementaryMutate
    \/ CallIndivMutate

RuleSpec == Init /\ [][RuleNext]_vars

\* ------------------------------------------------------------------------
\* LifeLikeAutomataRule (automata_rules.rs)
\*
\* A LifeLikeAutomataRule is a record of color_order (a sequence of 8
\* BitColors) and color_rules (a sequence of 8 IndivAutomataRules).  The rule
\* lives in ret from generate_rng on and every mutate_rng replaces it;
\* call.mutations counts the mutate_rng calls made on it.

BitColor_values ==
    <<"Black", "Red", "Green", "Blue", "Cyan", "Magenta", "Yellow", "White">>

\* A swap that copies one way only.
Swap_Overwrite(s, a, b) == [s EXCEPT ![a + 1] = s[b + 1]]

\* slice::swap(a, b), on 0-based indices.
Swap(s, a, b) == [s EXCEPT ![a + 1] = s[b + 1], ![b + 1] = s[a + 1]]

\* SliceRandom::shuffle: for i in (1..len).rev() { swap(i, gen_range(0..=i)) },
\* draws[i] being the value the generator gives at step i.
RECURSIVE ShuffleFrom(_, _, _)
ShuffleFrom(s, i, draws) ==
    IF i = 0 THEN s
    ELSE ShuffleFrom(Swap(s, i, draws[i] % (i + 1)), i - 1, draws)

shuffle(s, draws) == ShuffleFrom(s, Len(s) - 1, draws)

\* The random streams the shuffle is run on.
MaxShuffleSeed == 5

ShuffleDraws ==
    {[i \in 1 .. 7 |-> (seed * i + (seed \div 3)) % (i + 1)] : seed \in 0 .. MaxShuffleSeed}

\* LifeLikeAutomataRule::generate_rng, with the 8 rules IndivAutomataRule::
\* generate_rng returned.
LifeLikeAutomataRule_generate_rng(draws, color_rules) ==
    [color_order |-> shuffle(BitColor_values, draws), color_rules |-> color_rules]

LifeLikeAutomataRule_mutate_rng(self, resample, fresh, draw, mutated) ==
    IF resample THEN fresh
    ELSE [self EXCEPT !.color_rules[(draw % 8) + 1] = mutated]

\* The IndivAutomataRules a LifeLikeAutomataRule is generated from.
LifeIndivRules ==
    {IndivAutomataRule_generate_rng(nb, GeneratedTables(MaxTables, t, t)) :
        nb \in {"Vertical", "Melt"}, t \in {[birth |-> FALSE, survival |-> TRUE]}}

GeneratedLifeRules ==
    {LifeLikeAutomataRule_generate_rng(draws, [i \in 1 .. 8 |-> r]) :
        draws \in ShuffleDraws, r \in LifeIndivRules}

\* The mutate_rng calls made on one rule.
MaxMutations == 3

LifeDraws == {0, 9}

IsLifeCall ==
    call.fn \in {"LifeLikeAutomataRule::generate_rng", "LifeLikeAutomataRule::mutate_rng"}

CallLifeGenerate ==
    /\ Idle
    /\ \E rule \in GeneratedLifeRules :
          /\ call' = [fn |-> "LifeLikeAutomataRule::generate_rng", mutations |-> 0,
                      resample |-> FALSE]
          /\ ret' = Ok(rule)
    /\ UNCHANGED machineVars

\* What color_rules[index].mutate_rng can leave in place of the rule `r`.
IndivMutations(r) ==
    {IndivAutomataRule_mutate_rng(r, resample, fresh, draw, t[1], t[2], t[3]) :
        resample \in BOOLEAN, fresh \in LifeIndivRules, draw \in 0 .. 1, t \in TableChoices}

CallLifeMutate ==
    /\ IsLifeCall
    /\ call.mutations < MaxMutations
    /\ \E resample \in BOOLEAN :
          \E fresh \in (IF resample THEN GeneratedLifeRules ELSE {ret.v}),
             draw \in (IF resample THEN {0} ELSE LifeDraws) :
              \E mutated \in (IF resample THEN {0}
                              ELSE IndivMutations(ret.v.color_rules[(draw % 8) + 1])) :
                  /\ call' = [fn |-> "LifeLikeAutomataRule::mutate_rng",
                              mutations |-> call.mutations + 1, resample |-> resample]
                  /\ ret' = Ok(LifeLikeAutomataRule_mutate_rng(ret.v, resample, fresh,
                                                               draw, mutated))
    /\ UNCHANGED machineVars

LifeNext ==
    \/ CallLifeGenerate
    \/ CallLifeMutate

LifeSpec == Init /\ [][LifeNext]_vars

\* ------------------------------------------------------------------------
\* PointSet storage (point_sets.rs)
\*
\* The points of a PointSet are behind an Arc.  The model keeps the heap of
\* Arc allocations, each a record of its data (the Vec<SNPoint>), its strong
\* count and whether a holder outside the PointSets (the caller of replace)
\* keeps a clone of it, and the PointSets as the allocation each points to.
\* The pair [heap, copies] lives in ret.v; call.ops counts the operations
\* made.  The generator field takes no part in these operations.

\* The PointSets alive at once, and the operations made on them.
MaxCopies == 3

MaxPointSetOps == 3

PointSetView(s, c) == s.heap[s.copies[c]].data

\* The key of sort_by_key: (d != 0.0, FloatOrd(d)), false before true.
KeyLess(p, q, other) ==
    LET dp == F32Distance(p, other)
        dq == F32Distance(q, other)
    IN  \/ IsZero(dp) /\ ~IsZero(dq)
        \/ (IsZero(dp) = IsZero(dq)) /\ F32Lt(dp, dq)

\* The stable sort: each point goes behind the points whose key is not
\* greater than its own.
RECURSIVE SortInsert(_, _, _)
SortInsert(s, p, other) ==
    IF s = <<>> THEN <<p>>
    ELSE IF KeyLess(p, s[Len(s)], other)
         THEN Append(SortInsert(SubSeq(s, 1, Len(s) - 1), p, other), s[Len(s)])
         ELSE Append(s, p)

RECURSIVE SortPrefix(_, _, _)
SortPrefix(s, k, other) ==
    IF k = 0 THEN <<>> ELSE SortInsert(SortPrefix(s, k - 1, other), s[k], other)

sort_by_key(s, other) == SortPrefix(s, Len(s), other)

\* A make_mut that hands out the shared allocation itself.
Arc_make_mut_InPlace(s, c) == s

\* Arc::make_mut: the allocation itself when this is its only reference, and
\* otherwise a new allocation holding a clone of the data, the old one
\* losing one reference.
Arc_make_mut(s, c) ==
    LET a == s.copies[c]
    IN  IF s.heap[a].strong = 1 THEN s
        ELSE [heap |-> Append([s.heap EXCEPT ![a].strong = @ - 1],
                              [data |-> s.heap[a].data, strong |-> 1, held |-> FALSE]),
              copies |-> [s.copies EXCEPT ![c] = Len(s.heap) + 1]]

\* The state after PointSet::new(Arc::new(points), generator): one PointSet
\* on one allocation.
FirstPointSet(points) ==
    IF PointSet_new(points, "Origin").panic THEN Panic
    ELSE Ok([heap |-> << [data |-> points, strong |-> 1, held |-> FALSE] >>,
             copies |-> <<1>>])

\* derive(Clone): the new PointSet shares the allocation.
PointSet_clone(s, c) ==
    [heap |-> [s.heap EXCEPT ![s.copies[c]].strong = @ + 1],
     copies |-> Append(s.copies, s.copies[c])]

\* get_n_closest_points: the state it leaves and the slice it returns.
PointSet_get_n_closest_points(s, c, other, n) ==
    LET t == Arc_make_mut(s, c)
        a == t.copies[c]
        sorted == sort_by_key(t.heap[a].data, other)
    IN  [state |-> [t EXCEPT !.heap[a].data = sorted],
         slice |-> SubSeq(sorted, 1, Min(n, Len(sorted)))]

\* replace with an Arc the caller has just made (keep says whether the
\* caller keeps a clone of it): PointSet::new panics before anything is
\* assigned, and otherwise the old Arc is dropped.
PointSet_replace(s, c, points, keep) ==
    IF ~PointSet_new(points, "Origin").panic
    THEN Ok([heap |-> Append([s.heap EXCEPT ![s.copies[c]].strong = @ - 1],
                             [data |-> points, strong |-> IF keep THEN 2 ELSE 1,
                              held |-> keep]),
             copies |-> [s.copies EXCEPT ![c] = Len(s.heap) + 1]])
    ELSE [v |-> s, panic |-> TRUE]

\* replace with a clone of an Arc a caller kept: allocation b gains the
\* reference the old allocation loses.
PointSet_replace_shared(s, c, b) ==
    LET a == s.copies[c]
        gained == [s.heap EXCEPT ![b].strong = @ + 1]
    IN  [heap |-> [gained EXCEPT ![a].strong = @ - 1],
         copies |-> [s.copies EXCEPT ![c] = b]]

\* The point (x / One, y / One).
LatticePoint(x, y) == <<LatticeF32[x], LatticeF32[y]>>

\* The descriptors PointSetGenerator::random is sampled at: a fixed
\* neighbourhood (Origin is never drawn), a grid of two points, and the
\* sparse grid whose only cell is filtered out.  Their coordinates are
\* dyadic, so the f32 a point holds is the quotient of its coordinate.
RandomGenerators ==
    {[variant |-> "VonNeumann"],
     [variant |-> "UniformGrid", x_count |-> 1, y_count |-> 0],
     [variant |-> "SparseGrid", x_count |-> 0, y_count |-> 0,
      x_mod |-> FALSE, y_mod |-> FALSE]}

\* The points of a generated PointSet as pairs of f32.
PointsOf(made) ==
    [i \in 1 .. Len(made.points) |->
        <<F32OfRatio(made.points[i][1], made.points[i][2]),
          F32OfRatio(made.points[i][3], made.points[i][4])>>]

\* PointSet::random with the descriptor drawn: none of the descriptors
\* sampled draws from the rng again.
PointSet_random(generator) == generate_point_set(generator, [seed |-> 0], 0)

\* mutate_rng: *self = Self::random(rng).  The new PointSet is built first,
\* on an allocation of its own, and a panic of generate_point_set leaves
\* self as it was; the assignment drops the old value, whose allocation
\* loses one reference.
PointSet_mutate_rng(s, c, made) ==
    IF made.panic THEN [v |-> s, panic |-> TRUE]
    ELSE Ok([heap |-> Append([s.heap EXCEPT ![s.copies[c]].strong = @ - 1],
                             [data |-> PointsOf(made), strong |-> 1, held |-> FALSE]),
             copies |-> [s.copies EXCEPT ![c] = Len(s.heap) + 1]])

PointVecs ==
    {<<>>,
     << LatticePoint(One, 0) >>,
     << LatticePoint(One, One), LatticePoint(0, 0) >>,
     << LatticePoint(-One, One), LatticePoint(0, Half), LatticePoint(0, 0) >>,
     << LatticePoint(Half, 0), LatticePoint(0, -Half), LatticePoint(-Half, 0) >>}

OtherPoints == {LatticePoint(0, 0), LatticePoint(-One, 0)}

IsPointSetCall ==
    call.fn \in {"PointSet::new", "PointSet::clone", "PointSet::get_n_closest_points",
                 "PointSet::replace", "PointSet::mutate_rng"}

PointSetReady == IsPointSetCall /\ ~ret.panic /\ call.ops < MaxPointSetOps

CallPointSetNew ==
    /\ Idle
    /\ \E points \in PointVecs :
          /\ call' = [fn |-> "PointSet::new", copy |-> 0, ops |-> 0, copied |-> FALSE,
                      slice |-> <<>>]
          /\ ret' = FirstPointSet(points)
    /\ UNCHANGED machineVars

CallPointSetClone ==
    /\ PointSetReady
    /\ Len(ret.v.copies) < MaxCopies
    /\ \E c \in 1 .. Len(ret.v.copies) :
          /\ call' = [fn |-> "PointSet::clone", copy |-> c, ops |-> call.ops + 1,
                      copied |-> FALSE, slice |-> <<>>]
          /\ ret' = Ok(PointSet_clone(ret.v, c))
    /\ UNCHANGED machineVars

CallGetNClosestPoints ==
    /\ PointSetReady
    /\ \E c \in 1 .. Len(ret.v.copies), other \in OtherPoints, n \in {1, 4} :
          LET out == PointSet_get_n_closest_points(ret.v, c, other, n)
          IN  /\ call' = [fn |-> "PointSet::get_n_closest_points", copy |-> c,
                          ops |-> call.ops + 1,
                          copied |-> Len(out.state.heap) > Len(ret.v.heap),
                          slice |-> out.slice]
              /\ ret' = Ok(out.state)
    /\ UNCHANGED machineVars

CallReplace ==
    /\ PointSetReady
    /\ \E c \in 1 .. Len(ret.v.copies) :
          /\ call' = [fn |-> "PointSet::replace", copy |-> c, ops |-> call.ops + 1,
                      copied |-> FALSE, slice |-> <<>>]
          /\ \/ \E points \in PointVecs, keep \in BOOLEAN :
                    ret' = PointSet_replace(ret.v, c, points, keep)
             \/ \E b \in 1 .. Len(ret.v.heap) :
                    /\ ret.v.heap[b].held
                    /\ ret' = Ok(PointSet_replace_shared(ret.v, c, b))
    /\ UNCHANGED machineVars

CallMutateRng ==
    /\ PointSetReady
    /\ \E c \in 1 .. Len(ret.v.copies), generator \in RandomGenerators :
          /\ call' = [fn |-> "PointSet::mutate_rng", copy |-> c, ops |-> call.ops + 1,
                      copied |-> FALSE, slice |-> <<>>]
          /\ ret' = PointSet_mutate_rng(ret.v, c, PointSet_random(generator))
    /\ UNCHANGED machineVars

PointSetNext ==
    \/ CallPointSetNew
    \/ CallPointSetClone
    \/ CallGetNClosestPoints
    \/ CallReplace
    \/ CallMutateRng

PointSetSpec == Init /\ [][PointSetNext]_vars

\* ------------------------------------------------------------------------
\* FloatColor to NibbleColor (colors.rs)
\*
\* The channels of a FloatColor are UNFloats on the lattice 0 .. One.

\* An f32 num / den cast with `as u8`: truncated towards zero and saturated.
AsU8(num, den) == Min(255, Max(0, num \div den))

\* Nibble::new((value.into_inner() * 16.0) as u8), for one channel.
NibbleChannel(value) == Nibble_new(AsU8(value * 16, One))

\* impl From<FloatColor> for NibbleColor
NibbleColor_from(other) ==
    LET r == NibbleChannel(other.r)
        g == NibbleChannel(other.g)
        b == NibbleChannel(other.b)
        a == NibbleChannel(other.a)
    IN  IF r.panic \/ g.panic \/ b.panic \/ a.panic THEN Panic
        ELSE Ok([r |-> r.v, g |-> g.v, b |-> b.v, a |-> a.v])

ConvertedColors == [r : 0 .. One, g : 0 .. One, b : {0, Half, One}, a : {0, One - 1, One}]

CallNibbleColorFrom ==
    /\ Idle
    /\ \E other \in ConvertedColors :
          /\ call' = [fn |-> "NibbleColor::from", other |-> other]
          /\ ret' = NibbleColor_from(other)
    /\ UNCHANGED machineVars

ColorNext == CallNibbleColorFrom

ColorSpec == Init /\ [][ColorNext]_vars

\* ------------------------------------------------------------------------
\* Claims about Angle

\* Two lattice angles denote the same direction.
Congruent(x, y) == (x - y) % TwoPI = 0

\* C7 as stated: for every finite input Angle::new returns, without
\* panicking, a value in the half-open interval (-pi, pi]; -pi is never
\* produced.
C7_HalfOpenRange ==
    call.fn = "Angle::new" =>
        /\ ~ret.panic
        /\ ret.v > -PI
        /\ ret.v <= PI

\* C8 as stated: a + b and a - b are the in-range angles congruent to the
\* sum and the difference of the values modulo 2 pi, and a + ZERO is a.
C8_AddSubWrap ==
    /\ call.fn = "Angle::add" =>
        /\ ~ret.panic
        /\ ret.v \in Angles
        /\ Congruent(ret.v, call.a + call.b)
        /\ call.b = Angle_ZERO => ret.v = call.a
    /\ call.fn = "Angle::sub" =>
        /\ ~ret.panic
        /\ ret.v \in Angles
        /\ Congruent(ret.v, call.a - call.b)

\* The signed length of the shorter arc from a to b, in (-pi, pi] (either
\* arc when the two are opposite).
ShortArc(a, b) ==
    LET d == (b - a) % TwoPI
    IN  IF d > PI THEN d - TwoPI ELSE d

\* C9 as stated: Angle::lerp returns the in-range angle at fraction s of the
\* shorter arc from a to b, so s = 0 gives a and s = 1 gives b modulo 2 pi.
C9_LerpShortArc ==
    call.fn = "Angle::lerp" =>
        /\ ~ret.panic
        /\ ret.v \in Angles
        /\ \/ Congruent(ret.v * LerpDen, call.a * LerpDen + ShortArc(call.a, call.b) * call.k)
           \/ /\ Abs(call.b - call.a) = PI
              /\ Congruent(ret.v * LerpDen, call.a * LerpDen - PI * call.k)
        /\ call.k = 0 => Congruent(ret.v, call.a)
        /\ call.k = LerpDen => Congruent(ret.v, call.b)

\* ------------------------------------------------------------------------
\* Claims about the asserting constructors and the normalisers

InSigned(v) == v >= -One /\ v <= One

InUnsigned(v) == v >= 0 /\ v <= One

\* C5 as stated: SNPoint::new and SNComplex::new panic exactly when a
\* coordinate lies outside [-1, 1], UNFloat::new exactly when the value lies
\* outside [0, 1] and SNFloat::new exactly when it lies outside [-1, 1].
C5_ConstructorsAcceptExactlyRange ==
    /\ call.fn \in {"SNPoint::new", "SNComplex::new"} =>
           (ret.panic <=> ~(InSigned(call.x) /\ InSigned(call.y)))
    /\ call.fn = "UNFloat::new" => (ret.panic <=> ~InUnsigned(call.value))
    /\ call.fn = "SNFloat::new" => (ret.panic <=> ~InSigned(call.value))

\* C6 as stated: for every f32 input every SFloatNormaliser variant returns,
\* without panicking, a value in [-1, 1] and every UFloatNormaliser variant a
\* value in [0, 1].
C6_NormalisersTotal ==
    /\ call.fn = "SFloatNormaliser::normalise" =>
           (~ret.panic /\ F32Le(F32MinusOne, ret.v) /\ F32Le(ret.v, F32One))
    /\ call.fn = "UFloatNormaliser::normalise" =>
           (~ret.panic /\ F32Le(F32Zero, ret.v) /\ F32Le(ret.v, F32One))

\* C10 as stated: new_sawtooth and new_triangle return v unchanged for every
\* v in the range of the type, both boundaries included.
C10_WrapIdempotent ==
    /\ (call.fn \in {"UNFloat::new_sawtooth", "UNFloat::new_triangle"}
            /\ InUnsigned(call.value)) =>
           (~ret.panic /\ ret.v = call.value)
    /\ (call.fn \in {"SNFloat::new_sawtooth", "SNFloat::new_triangle"}
            /\ InSigned(call.value)) =>
           (~ret.panic /\ ret.v = call.value)


\* ------------------------------------------------------------------------
\* Claims about the point set generators

\* C1 as stated: for every descriptor and every random source
\* generate_point_set returns a PointSet, tripping no assertion, of between
\* 1 and 256 points.
C1_GeneratedSetInRange ==
    call.fn = "generate_point_set" =>
        /\ ~ret.panic
        /\ Len(ret.points) >= 1
        /\ Len(ret.points) <= 256

\* C4 as stated: for LinearIncreasingRings, FibonacciRings and SquaredRings
\* the ring-size sequence keeps at least one ring and the points placed over
\* all rings are at most max_count (raised to at least 1).
C4_RingBudget ==
    (call.fn = "generate_point_set"
        /\ call.self.variant \in {"LinearIncreasingRings", "FibonacciRings", "SquaredRings"}) =>
        /\ ~ret.panic
        /\ Len(RingSequence(call.self, [seed |-> call.seed])) >= 1
        /\ Len(ret.points) <= Max(call.self.max_count, 1)

\* ------------------------------------------------------------------------
\* Claims about poisson()

\* C2 as stated: in the vector poisson() returns every two distinct points
\* are at distance at least radius.
C2_PairwiseSeparation ==
    p_pc = "done" =>
        \A i \in 1 .. Len(p_points), j \in 1 .. Len(p_points) :
            i < j => F32Le(radius, F32Distance(p_points[i], p_points[j]))

\* C3: poisson() called with count > 0 returns between 1 and count points;
\* the seed point is placed before the loop, the loop never holds more than
\* count points, and a step never takes a point out of the result, also
\* when it removes an entry of the active list.
C3_BetweenOneAndCount ==
    /\ [](p_pc = "panic" => p_count = 0)
    /\ [](p_pc = "loop" => (Len(p_points) >= 1 /\ Len(p_points) <= p_count))
    /\ [](p_pc = "done" => (Len(p_points) >= 1 /\ Len(p_points) <= p_count))
    /\ [][/\ Len(p_points') > Len(p_points) => Len(p_points) < p_count
          /\ Len(p_points') >= Len(p_points)
          /\ SubSeq(p_points', 1, Len(p_points)) = p_points]_vars

\* C3 witness: poisson() has returned fewer points than count, every one of
\* them removed from the active list.
C3_Witness ==
    /\ p_pc = "done"
    /\ p_count > Len(p_points)
    /\ Len(p_points) >= 2
    /\ p_active = <<>>

\* ------------------------------------------------------------------------
\* Claims about the discrete types

\* C11: divide and modulus of Nibble, Byte, UInt and SInt return without
\* panicking for every pair of operands, i32::MIN divided by -1 included
\* (it wraps to i32::MIN), and return the divisor when the divisor is zero.
C11_DivideTotal ==
    call.fn \in {"Nibble::divide", "Nibble::modulus", "Byte::divide", "Byte::modulus",
                 "UInt::divide", "UInt::modulus", "SInt::divide", "SInt::modulus"} =>
        /\ ~ret.panic
        /\ call.other = 0 => ret.v = 0
        /\ (call.fn = "SInt::divide" /\ call.self = I32Min /\ call.other = -1) => ret.v = I32Min

\* C11 witness: SInt::divide has divided i32::MIN by -1, and this is a call
\* with a result other than zero.
C11_Witness ==
    /\ call.fn = "SInt::divide"
    /\ call.self = I32Min
    /\ call.other = -1
    /\ ~ret.panic
    /\ ret.v = I32Min

\* C12: a Nibble that starts below 16 stays below 16 under every sequence
\* of circular_add, circular_multiply, divide, modulus and mutate_rng, and
\* no step overflows u8 or fails the assertion of Nibble::new.
C12_NibbleBelowModulus ==
    /\ ~ret.panic
    /\ ret.v >= 0
    /\ ret.v < Nibble_MODULUS

\* C12 witness: circular_multiply has reduced the product 15 * 15 = 225, the
\* largest u8 the operations compute, to 1.
C12_Witness ==
    /\ call.fn = "Nibble::circular_multiply"
    /\ call.self = 15
    /\ call.other = 15
    /\ ~ret.panic
    /\ ret.v = 1

\* ------------------------------------------------------------------------
\* Claims about the text form of SNPoint and SNComplex

\* C13: visit_str of SNPoint and of SNComplex never panics; a text that
\* does not match the pattern, whose numbers do not parse or whose x or y is
\* outside [-1, 1] gives a decode error, and a text of the pattern with both
\* numbers in [-1, 1] gives the value of these numbers.
C13_DecodeNeverPanics ==
    call.fn \in {"SNPointVisitor::visit_str", "SNComplexVisitor::visit_str"} =>
        /\ ~ret.panic
        /\ ~ret.err <=> (call.pattern /\ call.x.kind = "in" /\ call.y.kind = "in")
        /\ ~ret.err => ret.v = <<call.x.value, call.y.value>>

\* C13 witness: a text of the pattern whose y is above 1 has been refused
\* with a decode error.
C13_Witness ==
    /\ call.fn = "SNPointVisitor::visit_str"
    /\ call.pattern
    /\ call.x.kind = "in"
    /\ call.y.kind = "out"
    /\ ~call.y.value.neg
    /\ ret.err
    /\ ~ret.panic

\* C14 as stated: deserializing the text that serializing an SNPoint (an
\* SNComplex) gives returns a value equal to the original.
C14_SerializeRoundTrip ==
    call.fn \in {"SNPoint::serialize/deserialize", "SNComplex::serialize/deserialize"} =>
        /\ ~ret.panic
        /\ ~ret.err
        /\ F32Eq(ret.v[1], F32OfDyadic(call.x, BinaryBits, call.negative_zeros[1]))
        /\ F32Eq(ret.v[2], F32OfDyadic(call.y, BinaryBits, call.negative_zeros[2]))

\* ------------------------------------------------------------------------
\* Claims about saving and loading a PointSet

Loaded == call.fn = "PointSet::deserialize"

\* C15 as stated: a loaded PointSet of a grid or ring variant, RandomRings
\* included, has the points of the saved one.
C15_LoadSamePoints ==
    Loaded => (~ret.panic /\ ret.points = call.saved)

\* C15: a loaded PointSet of UniformGrid, SparseGrid, HexGrid, TriGrid,
\* LinearIncreasingRings, FibonacciRings or SquaredRings has the points of
\* the saved one, whatever the random sources of the two generations.
C15_LoadSamePointsDeterministic ==
    (Loaded /\ call.self.variant # "RandomRings")
        => (~ret.panic /\ ret.points = call.saved)

\* A LinearIncreasingRings set of several points loaded with a random
\* source other than the one it was generated with.
C15_Witness ==
    /\ Loaded
    /\ call.self.variant = "LinearIncreasingRings"
    /\ call.seed # call.saved_seed
    /\ Len(call.saved) > 1
    /\ ret.points = call.saved

\* ------------------------------------------------------------------------
\* Claims about ElementaryAutomataRule

Bit(b) == IF b THEN 1 ELSE 0

\* The canonical table of rule 110, by neighbourhood 4 l + 2 c + r.
Rule110 == [n \in 0 .. 7 |-> n \in {1, 2, 3, 5, 6}]

\* C16: from_wolfram_code(code).get_value_from_booleans(l, c, r) is bit
\* number 4 l + 2 c + r of the code, for every code of 0 .. 255 and every
\* neighbourhood; for code 110 it is the canonical table.
C16_WolframBit ==
    call.fn = "get_value_from_booleans" =>
        LET n == 4 * Bit(call.l) + 2 * Bit(call.c) + Bit(call.r)
        IN  /\ ~ret.panic
            /\ ret.v = (((call.code \div (2 ^ n)) % 2) = 1)
            /\ call.code = 110 => ret.v = Rule110[n]

\* Rule 110 asked for the neighbourhood 100, which is clear while its
\* mirror image 001 is set.
C16_Witness ==
    /\ call.fn = "get_value_from_booleans"
    /\ call.code = 110
    /\ call.l /\ ~call.c /\ ~call.r
    /\ ret.v = FALSE

\* ------------------------------------------------------------------------
\* Claims about BitColor

\* The channels set in a colour, and in the components an operation returns.
ChannelsOf(color) == {i \in 1 .. 3 : BitColor_to_components(color)[i]}

ChannelsSet(components) == {i \in 1 .. 3 : components[i]}

\* C17: for all 64 pairs (a, b) of BitColors, on the components given by
\* to_components, give_color is a OR b per channel, take_color is a AND NOT
\* b, xor_color is a XOR b, eq_color is set on a channel exactly when both
\* bits are equal, and has_color is true exactly when some channel is set
\* in both.
C17_BitColorAlgebra ==
    LET a == ChannelsOf(call.self)
        b == ChannelsOf(call.other)
    IN  /\ call.fn = "give_color" => ChannelsSet(ret.v) = a \cup b
        /\ call.fn = "take_color" => ChannelsSet(ret.v) = a \ b
        /\ call.fn = "xor_color" => ChannelsSet(ret.v) = (a \ b) \cup (b \ a)
        /\ call.fn = "eq_color" => ChannelsSet(ret.v) = (1 .. 3) \ ((a \ b) \cup (b \ a))
        /\ call.fn = "has_color" => (ret.v <=> a \cap b # {})

\* Yellow take Cyan leaves red alone: green is taken, blue was never there.
C17_Witness ==
    /\ call.fn = "take_color"
    /\ call.self = "Yellow"
    /\ call.other = "Cyan"
    /\ ret.v = <<TRUE, FALSE, FALSE>>

\* ------------------------------------------------------------------------
\* Claims about ColorBlendFunctions

\* C18 as stated: for Dissolve, Overlay and ScreenDodge and all colours a
\* and b, the alpha of blend(a, b) is the mean (a.a + b.a) / 2.
C18_AlphaIsMean ==
    call.fn = "blend" =>
        /\ ~ret.panic
        /\ 2 * ret.v.a = ToBlend(call.a.a) + ToBlend(call.b.a)

\* The overlay formula on one channel, on the lattice 1 / BlendOne: 2 a b
\* when a < 0.5, 1 - 2 (1 - a) (1 - b) otherwise.
StandardOverlay(a, b) ==
    IF 2 * a < One THEN 4 * a * b ELSE BlendOne - 4 * (One - a) * (One - b)

\* C19 as stated: Overlay gives every RGB channel the standard overlay
\* formula, and the result is inside [0, 1], so that UNFloat::new never
\* panics.
C19_OverlayFormula ==
    (call.fn = "blend" /\ call.self = "Overlay") =>
        /\ ~ret.panic
        /\ ret.v.r = StandardOverlay(call.a.r, call.b.r)
        /\ ret.v.g = StandardOverlay(call.a.g, call.b.g)
        /\ ret.v.b = StandardOverlay(call.a.b, call.b.b)
        /\ \A ch \in {ret.v.r, ret.v.g, ret.v.b} : ch >= 0 /\ ch <= BlendOne

\* ------------------------------------------------------------------------
\* Claims about Buffer

\* The cells <<y, x>> that hold the drawn value after the call.
Written == {c \in DOMAIN ret.v.array : ret.v.array[c] = DrawnValue}

\* The cell <<y, x>> of a point.
CellOf(p) == LET u == point_to_uint(call.self, p) IN <<u[2], u[1]>>

\* The cell c is in the bounding box of the cells a and b and, along the
\* minor axis, less than one cell away from the segment from a to b.
OnLine(c, a, b) ==
    LET dy == b[1] - a[1]
        dx == b[2] - a[2]
    IN  /\ c[1] >= Min(a[1], b[1]) /\ c[1] <= Max(a[1], b[1])
        /\ c[2] >= Min(a[2], b[2]) /\ c[2] <= Max(a[2], b[2])
        /\ Abs(dx * (c[1] - a[1]) - dy * (c[2] - a[2])) < Max(Max(Abs(dx), Abs(dy)), 1)

\* The line from a to b has a cell in every row and every column between.
Unbroken(cells, a, b) ==
    /\ \A y \in Min(a[1], b[1]) .. Max(a[1], b[1]) : \E c \in cells : c[1] = y
    /\ \A x \in Min(a[2], b[2]) .. Max(a[2], b[2]) : \E c \in cells : c[2] = x

\* C20: draw_line between any two SNPoints writes only cells of the
\* buffer, writes the cells of both end points and an unbroken line of
\* cells between them, and leaves every other cell as it was; from (-1, -1)
\* to (1, 1) on a 4 x 4 buffer it writes exactly the diagonal.
C20_DrawLine ==
    call.fn = "draw_line" =>
        /\ ~ret.panic
        /\ DOMAIN ret.v.array = BufferCells(call.self.width, call.self.height)
        /\ CellOf(call.from) \in Written
        /\ CellOf(call.to) \in Written
        /\ \A c \in Written : OnLine(c, CellOf(call.from), CellOf(call.to))
        /\ Unbroken(Written, CellOf(call.from), CellOf(call.to))
        /\ \A c \in DOMAIN ret.v.array \ Written : ret.v.array[c] = call.self.array[c]
        /\ (/\ call.self.width = 4
            /\ call.self.height = 4
            /\ call.from = <<-One, -One>>
            /\ call.to = <<One, One>>)
                => Written = {<<i, i>> : i \in 0 .. 3}

\* A line from the corner (1, -1) to the middle of the left edge of a
\* chequered 4 x 3 buffer: 4 cells are written and others keep their 1.
C20_Witness ==
    /\ call.fn = "draw_line"
    /\ call.self.width = 4
    /\ call.self.height = 3
    /\ call.from = <<One, -One>>
    /\ call.to = <<-One, 0>>
    /\ Cardinality(Written) = 4
    /\ \E c \in DOMAIN ret.v.array : ret.v.array[c] = 1

\* ------------------------------------------------------------------------
\* Claims about the sign conversions

\* C21: u.to_signed().to_unsigned() gives u back for every UNFloat u and
\* s.to_unsigned().to_signed() gives s back for every SNFloat s, within
\* the tolerance f32::EPSILON of the test; a grid value i / n comes back as
\* a value that n times rounds to i.
C21_SignRoundTrip ==
    /\ call.fn \in {"to_signed().to_unsigned()", "to_unsigned().to_signed()"} =>
            ~ret.panic /\ F32Le(F32Abs(F32Sub(ret.v, call.self)), F32Epsilon)
    /\ call.fn = "grid round trip" => ~ret.panic /\ ret.v = call.i

\* An UNFloat that does not come back exactly: 2 u - 1 was rounded.
C21_Witness ==
    /\ call.fn = "to_signed().to_unsigned()"
    /\ ~ret.panic
    /\ ~F32Eq(ret.v, call.self)
    /\ F32Lt(F32Zero, call.self)

\* ------------------------------------------------------------------------
\* Claims about Preloader

\* C22 as stated: for every pool_size, 0 included, and every interleaving
\* in which each generate call returns, a drop that has cleared running and
\* drained the channel sees the child thread finish and its join return.
C22_DropCompletes ==
    [](child_pc # "panicked") => ((parent_pc = "drain") ~> (parent_pc = "dropped"))

\* C23: get_next_or_default never blocks; when the channel offers values
\* it returns the oldest, which is the next value in generation order not
\* yet delivered; when it offers none it returns the default while the
\* child thread lives, and panics once the child thread has ended, which a
\* generate that panics brings about.
C23_GetNextOrDefaultConnected ==
    /\ parent_pc = "live" => ENABLED GetNextOrDefault
    /\ result.op = "get_next_or_default" =>
        /\ result.available # <<>> =>
                result.kind = "item" /\ result.v = Head(result.available)
        /\ result.available = <<>> =>
                result.kind = (IF result.connected THEN "default" ELSE "panic")
    /\ (result.op # "none" /\ result.kind = "item") => result.v = result.index

\* C23 as stated: get_next_or_default never blocks and never panics; when
\* the channel offers values it returns the oldest, which is the next value
\* in generation order not yet delivered, and when it offers none it
\* returns the default.
C23_GetNextOrDefault ==
    /\ parent_pc = "live" => ENABLED GetNextOrDefault
    /\ result.op = "get_next_or_default" =>
        /\ result.kind # "panic"
        /\ result.available # <<>> =>
                result.kind = "item" /\ result.v = Head(result.available)
        /\ result.available = <<>> => result.kind = "default"
    /\ (result.op # "none" /\ result.kind = "item") => result.v = result.index

\* get_next_or_default returned the older of two buffered values, after
\* others had been delivered.
C23_Witness ==
    /\ result.op = "get_next_or_default"
    /\ result.kind = "item"
    /\ Len(result.available) = 2
    /\ result.index > 0
    /\ result.v = result.available[1]

\* C28: the values generated and not received are never more than
\* pool_size + 1, and once running is cleared the child completes at most
\* one more send.
C28_BoundedRunAhead ==
    /\ parent_pc # "none" => Outstanding <= pool_size + 1
    /\ late_sends <= 1

\* The channel is full and the child holds one more value, blocked in
\* send.
C28_Witness ==
    /\ pool_size = 2
    /\ Len(channel) = 2
    /\ child_pc = "send"
    /\ Outstanding = pool_size + 1

\* ------------------------------------------------------------------------
\* Claims about rule mutation and neighbourhoods

\* The entries of an IndivAutomataRule that differ between two rules.
ChangedTables(before, after) ==
    {i \in 1 .. Len(before.rules) : after.rules[i] # before.rules[i]}

\* C24: a mutate_rng that does not resample changes one leaf chosen from all
\* leaves: an ElementaryAutomataRule has exactly one of its 8 pattern entries
\* flipped, and in an IndivAutomataRule no more than one table changes and
\* every entry of rules, from index 0 to the neighbour count inclusive, is
\* the one mutated for some value of the random draw.
C24_OneLeafOfAll ==
    /\ (call.fn = "ElementaryAutomataRule::mutate_rng" /\ ~call.resample)
          => Cardinality({i \in 1 .. 8 : ret.v[i] # call.self[i]}) = 1
    /\ (call.fn = "IndivAutomataRule::mutate_rng" /\ ~call.resample)
          => /\ ret.v.neighbourhood = call.self.neighbourhood
             /\ Len(ret.v.rules) = Len(call.self.rules)
             /\ Cardinality(ChangedTables(call.self, ret.v)) <= 1
             /\ \A i \in 0 .. Len(call.self.rules) - 1 :
                    \E draw \in UsizeDraws :
                        IndivAutomataRule_mutated_index(call.self, draw) = i

\* C30: the offsets of every neighbourhood are pairwise distinct and never
\* (0, 0), so that a count over the list counts each neighbouring cell once.
C30_DistinctOffsets ==
    call.fn = "offsets"
        => /\ \A i, j \in 1 .. Len(ret.v) : i # j => ret.v[i] # ret.v[j]
           /\ \A i \in 1 .. Len(ret.v) : ret.v[i] # <<0, 0>>

\* C25: in every LifeLikeAutomataRule reached by generate_rng followed by any
\* sequence of mutate_rng calls, color_order holds each of the 8 BitColor
\* values exactly once.
C25_ColorOrderPermutation ==
    IsLifeCall
        => /\ Len(ret.v.color_order) = 8
           /\ \A c \in BitColors :
                  Cardinality({i \in 1 .. 8 : ret.v.color_order[i] = c}) = 1

\* A rule whose colours were moved by the shuffle, after a mutation that
\* changed one of its colour rules and left the order alone.
C25_Witness ==
    /\ call.fn = "LifeLikeAutomataRule::mutate_rng"
    /\ call.mutations = MaxMutations
    /\ ~call.resample
    /\ ret.v.color_order # BitColor_values
    /\ \E i \in 1 .. 8 : ret.v.color_rules[i] # ret.v.color_rules[(i % 8) + 1]

\* ------------------------------------------------------------------------
\* Claims about the Poisson sampling loop

\* One iteration of the loop: one point placed while fewer than count are,
\* or one entry of the active list removed and no point touched.
PoissonIteration ==
    \/ /\ Len(p_points') = Len(p_points) + 1
       /\ Len(p_points') <= p_count
       /\ Len(p_active') = Len(p_active) + 1
    \/ /\ p_points' = p_points
       /\ Len(p_active') = Len(p_active) - 1

\* An iteration can be made: some candidate around some active point is
\* built without a panic, and is then either accepted or dropped.
PoissonCanIterate ==
    \E active_idx \in 0 .. (Len(p_active) - 1) :
        \E c \in CandidateChoices(Normalised[p_normaliser],
                                  p_points[p_active[active_idx + 1] + 1]) :
            ~Candidate(Normalised[p_normaliser],
                       p_points[p_active[active_idx + 1] + 1], c[1], c[2]).panic

\* C26: the sampling loop terminates whatever the count, the normaliser and
\* the random choices are; each iteration places one point or removes one
\* entry of the active list, the loop never stalls, and every index in the
\* active list refers to a point already placed.
C26_LoopTerminates ==
    /\ <>(p_pc \in {"done", "panic"})
    /\ [][(p_pc = "loop" /\ p_pc' = "loop") => PoissonIteration]_vars
    /\ []((p_pc = "loop" /\ LoopGuard) => PoissonCanIterate)
    /\ [](\A k \in 1 .. Len(p_active) : p_active[k] \in 0 .. (Len(p_points) - 1))

\* The loop has ended with the count reached, after placing points and
\* removing an active entry whose candidates were rejected.
C26_Witness ==
    /\ p_pc = "done"
    /\ p_count = MaxCount
    /\ Len(p_points) = p_count
    /\ p_active # <<>>
    /\ Len(p_active) < Len(p_points)

\* ------------------------------------------------------------------------
\* Claims about PointSet storage

\* C27: the storage is copy-on-write: a clone, a get_n_closest_points (which
\* sorts), a replace or a mutate_rng leaves the points, their order and their
\* number as they were in every PointSet other than the one it is called on.
C27_CopyOnWrite ==
    [][(IsPointSetCall /\ IsPointSetCall')
          => \A c \in 1 .. Len(ret.v.copies) :
                 (call'.fn = "PointSet::clone" \/ c # call'.copy)
                     => PointSetView(ret'.v, c) = PointSetView(ret.v, c)]_vars

\* A get_n_closest_points on a PointSet that shared its points with a clone
\* has reordered them, and the clone still shows the old order.
C27_Witness ==
    /\ call.fn = "PointSet::get_n_closest_points"
    /\ call.copied
    /\ \E c \in 1 .. Len(ret.v.copies) :
          /\ c # call.copy
          /\ PointSetView(ret.v, c) # PointSetView(ret.v, call.copy)
          /\ Len(PointSetView(ret.v, c)) = Len(PointSetView(ret.v, call.copy))
          /\ sort_by_key(PointSetView(ret.v, c), <<F32Zero, F32Zero>>) = PointSetView(ret.v, call.copy)

\* ------------------------------------------------------------------------
\* Claims about colour conversion

\* C29: converting a FloatColor whose channels are in [0, 1], 1 included, to
\* a NibbleColor succeeds and every channel of the result is below 16.
C29_ConversionSucceeds ==
    call.fn = "NibbleColor::from"
        => /\ ~ret.panic
           /\ \A ch \in {ret.v.r, ret.v.g, ret.v.b, ret.v.a} : ch \in 0 .. 15

====
